---- MODULE Spec2Model ----
(***************************************************************************)
(* Command detection of the ModForge automation scripts.                   *)
(*                                                                         *)
(*   detect_commands    .github/scripts/process_conversation.py            *)
(*   _extract_commands  modforge-intellij-plugin/.github/scripts/          *)
(*                      process_comment_command.py                         *)
(*                                                                         *)
(* A text is a sequence of one-character strings.  Positions are 1-based;  *)
(* the `end` of a match is the position after its last character.          *)
(*                                                                         *)
(* The second part models one run of each script around the detection:     *)
(*                                                                         *)
(*   main               .github/scripts/process_conversation.py            *)
(*   CommandProcessor   modforge-intellij-plugin/.github/scripts/          *)
(*                      process_comment_command.py                         *)
(*   CommandProcessor   .github/scripts/process_issue_command.py           *)
(*   main               .github/scripts/pr_analyzer.py                     *)
(*   _improve_code      .github/scripts/process_pull_request.py            *)
(*                                                                         *)
(* Each run is a record: its inputs, its locals, the files and comments it *)
(* has written, and `pc`, the place the run has reached.                   *)
(***************************************************************************)
EXTENDS Integers, Sequences, FiniteSets, TLC

VARIABLES text, pc, impl, commands, starts,
          conv, proc, issue, analyzer, improver

vars == <<text, pc, impl, commands, starts, conv, proc, issue, analyzer, improver>>

\* A script that is not run.
Idle == [pc |-> "idle"]

(***************************************************************************)
(* Python values                                                           *)
(***************************************************************************)

\* Python's None where a str is expected: a one-element sequence whose
\* element is not a character, so it differs from every text, "" included.
None == <<"<None>">>

\* Truth value of a str-or-None: None and "" are falsy.
Truthy(v) == v # None /\ v # <<>>

\* `a if a else b`
IfElse(a, b) == IF Truthy(a) THEN a ELSE b

Quote == "\""

\* The characters \s matches among those the inputs are built from.
WS == {" ", "\n"}

Digits == {"0", "1", "2", "3", "4", "5", "6", "7", "8", "9"}

LowerCase == <<"a", "b", "c", "d", "e", "f", "g", "h", "i", "j", "k", "l", "m",
               "n", "o", "p", "q", "r", "s", "t", "u", "v", "w", "x", "y", "z">>

UpperCase == <<"A", "B", "C", "D", "E", "F", "G", "H", "I", "J", "K", "L", "M",
               "N", "O", "P", "Q", "R", "S", "T", "U", "V", "W", "X", "Y", "Z">>

ToUpper(c) ==
    IF \E k \in 1..26 : LowerCase[k] = c
    THEN UpperCase[CHOOSE k \in 1..26 : LowerCase[k] = c]
    ELSE c

ToLower(c) ==
    IF \E k \in 1..26 : UpperCase[k] = c
    THEN LowerCase[CHOOSE k \in 1..26 : UpperCase[k] = c]
    ELSE c

Min(S) == CHOOSE x \in S : \A y \in S : x <= y

\* Concatenation of a sequence of sequences.
RECURSIVE Flatten(_)
Flatten(ss) == IF ss = <<>> THEN <<>> ELSE Head(ss) \o Flatten(Tail(ss))

(***************************************************************************)
(* Regular-expression pieces                                               *)
(***************************************************************************)

\* A literal of a pattern at position i, compared with case ignored.
LitAtIgnoreCase(t, i, lit) ==
    /\ i + Len(lit) - 1 <= Len(t)
    /\ \A k \in 1..Len(lit) : ToLower(t[i + k - 1]) = ToLower(lit[k])

\* (?<!\S) before the literal: it must open the text or follow whitespace.
LitAtAnchored(t, i, lit) ==
    /\ i = 1 \/ t[i - 1] \in WS
    /\ i + Len(lit) - 1 <= Len(t)
    /\ \A k \in 1..Len(lit) : t[i + k - 1] = lit[k]

\* A literal of a pattern at position i.  The patterns are compiled without
\* re.IGNORECASE, so characters are compared as they are.
LitAt(t, i, lit) ==
    /\ i + Len(lit) - 1 <= Len(t)
    /\ \A k \in 1..Len(lit) : t[i + k - 1] = lit[k]

\* Length of the longest run of characters of S starting at i (greedy S*).
RunIn(t, i, S) ==
    LET stops == {k \in i..Len(t) : t[k] \notin S}
    IN  IF stops = {} THEN (IF i > Len(t) THEN 0 ELSE Len(t) - i + 1)
        ELSE Min(stops) - i

\* Length of the longest run of characters outside S starting at i.
RunNotIn(t, i, S) ==
    LET stops == {k \in i..Len(t) : t[k] \in S}
    IN  IF stops = {} THEN (IF i > Len(t) THEN 0 ELSE Len(t) - i + 1)
        ELSE Min(stops) - i

NoMatch == [ok |-> FALSE]

\* The first alternative that matches: a if it does, else b.
FirstOk(a, b) == IF a.ok THEN a ELSE b

\* The class of the unquoted alternative had the quote been left out: [^\s]+
BareClassNoQuote == WS

\* The class that ends the unquoted alternative ([^\s"]+): whitespace and
\* the double quote.
BareClass == WS \cup {Quote}

\* Least length of the body of the quoted alternative: "([^"]+)"
QuotedMin == 1

\* "([^"]+)" with the quotes kept in the group.
QuotedArgWithQuotes(t, j, r) ==
    IF r >= QuotedMin /\ j + 1 + r <= Len(t)
    THEN [ok |-> TRUE, g1 |-> SubSeq(t, j, j + r + 1), g2 |-> None, end |-> j + r + 2]
    ELSE NoMatch

\* "([^"]*)": nothing need stand between the quotes.
QuotedArgStar(t, j, r) ==
    IF j + 1 + r <= Len(t)
    THEN [ok |-> TRUE, g1 |-> SubSeq(t, j + 1, j + r), g2 |-> None, end |-> j + r + 2]
    ELSE NoMatch

\* "([^"]+)" at j, where t[j] is a quote and r characters other than a quote
\* follow it: the body needs one character at least and a quote after it.
QuotedArg(t, j, r) ==
    IF r >= QuotedMin /\ j + 1 + r <= Len(t)
    THEN [ok |-> TRUE, g1 |-> SubSeq(t, j + 1, j + r), g2 |-> None,
          end |-> j + r + 2]
    ELSE NoMatch

\* ([^\s"]+?) at j: the quantifier made lazy, it takes one character.
BareArgLazy(t, j, r) ==
    IF r >= 1
    THEN [ok |-> TRUE, g1 |-> None, g2 |-> SubSeq(t, j, j), end |-> j + 1]
    ELSE NoMatch

\* ([^\s"]*): the run may be empty.
BareArgStar(t, j, r) ==
    [ok |-> TRUE, g1 |-> None, g2 |-> SubSeq(t, j, j + r - 1), end |-> j + r]

\* ([^\s"]+) at j, where r characters of the class start at j.
BareArg(t, j, r) ==
    IF r >= 1
    THEN [ok |-> TRUE, g1 |-> None, g2 |-> SubSeq(t, j, j + r - 1), end |-> j + r]
    ELSE NoMatch

\* (?:"([^"]+)"|([^\s"]+)) at position j.  Each class is followed by a
\* character outside it (or by nothing), so only its longest run can match.
\* When the first alternative fails the second fails too: t[j] is a quote.
ArgAt(t, j) ==
    IF j > Len(t) THEN NoMatch
    ELSE IF t[j] = Quote THEN QuotedArg(t, j, RunNotIn(t, j + 1, {Quote}))
    ELSE BareArg(t, j, RunNotIn(t, j, BareClass))

\* \s+ (?:"([^"]+)"|([^\s"]+)): \s+ has taken n characters from p and gives
\* them back one at a time until the argument matches.
RECURSIVE TargetFrom(_, _, _)
TargetFrom(t, p, n) ==
    IF n = 0 THEN NoMatch
    ELSE FirstOk(ArgAt(t, p + n), TargetFrom(t, p, n - 1))

\* The match object of a single-target pattern that started at i.
TargetMatch(i, a) ==
    IF a.ok
    THEN [ok |-> TRUE, start |-> i, end |-> a.end, groups |-> <<a.g1, a.g2>>]
    ELSE NoMatch

\* The single-target patterns (fix, improve, document, analyze, explain,
\* refactor, test) at position i.
TargetAt(t, i, kw) ==
    IF ~LitAt(t, i, kw) THEN NoMatch
    ELSE TargetMatch(i, TargetFrom(t, i + Len(kw), RunIn(t, i + Len(kw), WS)))

To == <<"t", "o">>

\* The match object of the add pattern that started at i.
AddMatch(i, a1, a2) ==
    IF a2.ok
    THEN [ok |-> TRUE, start |-> i, end |-> a2.end,
          groups |-> <<a1.g1, a1.g2, a2.g1, a2.g2>>]
    ELSE NoMatch

\* \s+ARG after the first argument a1: the separator word left out.
AddRestNoTo(t, i, a1, w) ==
    AddMatch(i, a1, TargetFrom(t, a1.end, w))

\* \s+to\s+ARG after the first argument a1, w whitespace characters
\* following it.  A shorter \s+ would be followed by a whitespace
\* character, so giving characters back never lets `to` match.
AddRest(t, i, a1, w) ==
    IF w >= 1 /\ LitAt(t, a1.end + w, To)
    THEN AddMatch(i, a1, TargetFrom(t, a1.end + w + Len(To),
                                    RunIn(t, a1.end + w + Len(To), WS)))
    ELSE NoMatch

\* The rest of the add pattern after its first argument.  A shorter first
\* argument would be followed by a character of its own class, which is no
\* whitespace, so only the longest one is tried.
AddAfter(t, i, a1) ==
    IF a1.ok THEN AddRest(t, i, a1, RunIn(t, a1.end, WS)) ELSE NoMatch

\* /add\s+ARG\s+to\s+ARG at position i.
AddAt(t, i, kw) ==
    IF ~LitAt(t, i, kw) THEN NoMatch
    ELSE AddAfter(t, i, TargetFrom(t, i + Len(kw), RunIn(t, i + Len(kw), WS)))

All == <<"a", "l", "l">>

\* [0-9,\s]
ImplementClass == Digits \cup {","} \cup WS

\* ([0-9,\s]+) at j, where r characters of the class start at j.
ListArg(t, j, r) ==
    IF r >= 1
    THEN [ok |-> TRUE, g1 |-> SubSeq(t, j, j + r - 1), end |-> j + r]
    ELSE NoMatch

\* (?:all|([0-9,\s]+)) at j.
ImplementArg(t, j) ==
    IF LitAt(t, j, All)
    THEN [ok |-> TRUE, g1 |-> None, end |-> j + Len(All)]
    ELSE ListArg(t, j, RunIn(t, j, ImplementClass))

\* \s+ (?:all|([0-9,\s]+)): \s+ has taken n characters from p and gives them
\* back one at a time; a whitespace character given back is itself a match
\* of the group.
RECURSIVE ImplementFrom(_, _, _)
ImplementFrom(t, p, n) ==
    IF n = 0 THEN NoMatch
    ELSE FirstOk(ImplementArg(t, p + n), ImplementFrom(t, p, n - 1))

ImplementMatch(i, a) ==
    IF a.ok
    THEN [ok |-> TRUE, start |-> i, end |-> a.end, groups |-> <<a.g1>>]
    ELSE NoMatch

\* /implement\s+(?:all|([0-9,\s]+)) at position i.
ImplementAt(t, i, kw) ==
    IF ~LitAt(t, i, kw) THEN NoMatch
    ELSE ImplementMatch(i, ImplementFrom(t, i + Len(kw), RunIn(t, i + Len(kw), WS)))

\* /?help: the slash made optional, the bare word matches.
HelpAtNoSlash(t, i, kw) ==
    IF LitAt(t, i, Tail(kw))
    THEN [ok |-> TRUE, start |-> i, end |-> i + Len(kw) - 1, groups |-> <<>>]
    ELSE NoMatch

\* /help: no group.
HelpAt(t, i, kw) ==
    IF LitAt(t, i, kw)
    THEN [ok |-> TRUE, start |-> i, end |-> i + Len(kw), groups |-> <<>>]
    ELSE NoMatch

\* The pattern table, in the order of the dictionary.  `shape` names the
\* form of the regular expression after the keyword.
COMMAND_PATTERNS ==
    << [cmd |-> "fix",       kw |-> <<"/", "f", "i", "x">>, shape |-> "target"],
       [cmd |-> "improve",   kw |-> <<"/", "i", "m", "p", "r", "o", "v", "e">>,
        shape |-> "target"],
       [cmd |-> "document",  kw |-> <<"/", "d", "o", "c", "u", "m", "e", "n", "t">>,
        shape |-> "target"],
       [cmd |-> "add",       kw |-> <<"/", "a", "d", "d">>, shape |-> "add"],
       [cmd |-> "analyze",   kw |-> <<"/", "a", "n", "a", "l", "y", "z", "e">>,
        shape |-> "target"],
       [cmd |-> "explain",   kw |-> <<"/", "e", "x", "p", "l", "a", "i", "n">>,
        shape |-> "target"],
       [cmd |-> "implement", kw |-> <<"/", "i", "m", "p", "l", "e", "m", "e", "n", "t">>,
        shape |-> "implement"],
       [cmd |-> "refactor",  kw |-> <<"/", "r", "e", "f", "a", "c", "t", "o", "r">>,
        shape |-> "target"],
       [cmd |-> "test",      kw |-> <<"/", "t", "e", "s", "t">>, shape |-> "target"],
       [cmd |-> "help",      kw |-> <<"/", "h", "e", "l", "p">>, shape |-> "help"] >>

\* The table with the line of fix copied for test and its keyword left
\* unchanged: 'test': r'/fix\s+...'.
MatchAtCopied(t, i, pat) ==
    CASE pat.cmd = "test"        -> TargetAt(t, i, COMMAND_PATTERNS[1].kw)
      [] pat.shape = "target"    -> TargetAt(t, i, pat.kw)
      [] pat.shape = "add"       -> AddAt(t, i, pat.kw)
      [] pat.shape = "implement" -> ImplementAt(t, i, pat.kw)
      [] pat.shape = "help"      -> HelpAt(t, i, pat.kw)

\* One attempt of a pattern at position i (what the regex engine tries at
\* each start position).
MatchAt(t, i, pat) ==
    CASE pat.shape = "target"    -> TargetAt(t, i, pat.kw)
      [] pat.shape = "add"       -> AddAt(t, i, pat.kw)
      [] pat.shape = "implement" -> ImplementAt(t, i, pat.kw)
      [] pat.shape = "help"      -> HelpAt(t, i, pat.kw)

\* The leftmost match of the pattern starting at position i or later.
RECURSIVE Search(_, _, _)
Search(t, pat, i) ==
    IF i > Len(t) THEN NoMatch
    ELSE FirstOk(MatchAt(t, i, pat), Search(t, pat, i + 1))

\* re.search in the place of re.finditer: the leftmost match alone.
FindFromOnce(t, pat, m) ==
    IF m.ok THEN <<[cmd |-> pat.cmd, m |-> m]>> ELSE <<>>

\* re.finditer(pattern, text) from position pos: the leftmost match, then
\* the scan resumes at its end (no match is empty).
RECURSIVE FindIter(_, _, _)
FindFrom(t, pat, m) ==
    IF m.ok THEN <<[cmd |-> pat.cmd, m |-> m]>> \o FindIter(t, pat, m.end)
    ELSE <<>>

FindIter(t, pat, pos) == FindFrom(t, pat, Search(t, pat, pos))

(***************************************************************************)
(* str methods used on the implement list                                  *)
(***************************************************************************)

\* s.split(','): the pieces between commas, empty pieces kept.
RECURSIVE Split(_)
Split(s) ==
    LET r == RunNotIn(s, 1, {","})
    IN  IF r = Len(s) THEN <<s>>
        ELSE <<SubSeq(s, 1, r)>> \o Split(SubSeq(s, r + 2, Len(s)))

\* s.strip()
Strip(s) ==
    LET keep == {k \in 1..Len(s) : s[k] \notin WS}
    IN  IF keep = {} THEN <<>>
        ELSE SubSeq(s, Min(keep), CHOOSE k \in keep : \A j \in keep : j <= k)

\* s.isdigit()
IsDigit(s) == s # <<>> /\ \A k \in 1..Len(s) : s[k] \in Digits

DigitVal(c) ==
    CASE c = "0" -> 0 [] c = "1" -> 1 [] c = "2" -> 2 [] c = "3" -> 3
      [] c = "4" -> 4 [] c = "5" -> 5 [] c = "6" -> 6 [] c = "7" -> 7
      [] c = "8" -> 8 [] c = "9" -> 9

\* int(s) of a string of decimal digits (arbitrary precision).
RECURSIVE IntOf(_)
IntOf(s) ==
    IF s = <<>> THEN 0
    ELSE 10 * IntOf(SubSeq(s, 1, Len(s) - 1)) + DigitVal(s[Len(s)])

\* int(s) raises ValueError unless s, stripped, is a run of digits (the
\* list holds digits, commas and whitespace only: no sign, no underscore).
IntRaises(s) == ~IsDigit(Strip(s))

\* The pieces of the list the comprehension keeps:
\* [... for idx in g.split(',') if idx.strip().isdigit()]
KeptEntries(g) ==
    LET Keep(e) == IsDigit(Strip(e)) IN SelectSeq(Split(g), Keep)

\* [int(idx.strip()) for idx in ...] with the pieces taken unstripped by
\* the filter, so that a piece with whitespace around it is dropped.
ParseIndicesNoStrip(g) ==
    LET Keep(e) == IsDigit(e)
        es == SelectSeq(Split(g), Keep)
    IN  [k \in 1..Len(es) |-> IntOf(Strip(es[k]))]

\* [int(idx.strip()) - 1 for ...]: the numbers taken as positions counted
\* from one and turned into offsets.
ParseIndicesAsOffsets(g) ==
    LET es == KeptEntries(g)
    IN  [k \in 1..Len(es) |-> IntOf(Strip(es[k])) - 1]

\* [int(idx.strip()) for idx in g.split(',') if idx.strip().isdigit()]
ParseIndices(g) ==
    LET es == KeptEntries(g)
    IN  [k \in 1..Len(es) |-> IntOf(Strip(es[k]))]

(***************************************************************************)
(* detect_commands (process_conversation.py)                               *)
(***************************************************************************)

\* match.group(k) raises IndexError when the pattern has no group k.
GroupRaises(m, k) == k > Len(m.groups)

\* The match objects with the pattern table walked from its last entry to
\* its first.
ConvMatchesReversed(t) ==
    Flatten([p \in 1..Len(COMMAND_PATTERNS) |->
                FindIter(t, COMMAND_PATTERNS[Len(COMMAND_PATTERNS) + 1 - p], 1)])

\* All match objects in the order the two nested loops visit them: pattern
\* by pattern in table order, and for one pattern left to right.
ConvMatches(t) ==
    Flatten([p \in 1..Len(COMMAND_PATTERNS) |-> FindIter(t, COMMAND_PATTERNS[p], 1)])

\* int() raises on one of the pieces es.
AnyIntRaises(es) == \E k \in 1..Len(es) : IntRaises(es[k])

\* Whether the loop body raises on match object x: the else branch reads
\* match.group(1) whatever the pattern.
BodyRaises(x) ==
    CASE x.cmd = "add" -> FALSE
      [] x.cmd = "implement" ->
            Truthy(x.m.groups[1]) /\ AnyIntRaises(KeptEntries(x.m.groups[1]))
      [] OTHER -> GroupRaises(x.m, 1)

\* The tuple the loop body appends for match object x.
BodyCommand(x) ==
    CASE x.cmd = "add" ->
            [kind |-> "add",
             feature |-> IfElse(x.m.groups[1], x.m.groups[2]),
             target  |-> IfElse(x.m.groups[3], x.m.groups[4])]
      [] x.cmd = "implement" ->
            IF Truthy(x.m.groups[1])
            THEN [kind |-> "implement", indices |-> ParseIndices(x.m.groups[1])]
            ELSE [kind |-> "implement", all |-> TRUE]
      [] OTHER ->
            [kind |-> x.cmd, target |-> IfElse(x.m.groups[1], x.m.groups[2])]

\* The loop over the match objects ms: the list returned, or the exception
\* that leaves the function (the list built so far is lost with the frame).
Collect(ms) ==
    IF \E k \in 1..Len(ms) : BodyRaises(ms[k])
    THEN [raised |-> TRUE, commands |-> <<>>, starts |-> <<>>]
    ELSE [raised |-> FALSE,
          commands |-> [k \in 1..Len(ms) |-> BodyCommand(ms[k])],
          starts   |-> [k \in 1..Len(ms) |-> ms[k].m.start]]

\* detect_commands(text)
detect_commands(t) == Collect(ConvMatches(t))

(***************************************************************************)
(* CommandProcessor._extract_commands (process_comment_command.py)         *)
(***************************************************************************)

\* FIX_PATTERN, IMPROVE_PATTERN, DOCUMENT_PATTERN, ADD_PATTERN,
\* EXPLAIN_PATTERN in the order _extract_commands scans them; they are the
\* entries of the same name of the table above, character for character.
COMMENT_PATTERNS ==
    << COMMAND_PATTERNS[1], COMMAND_PATTERNS[2], COMMAND_PATTERNS[3],
       COMMAND_PATTERNS[4], COMMAND_PATTERNS[6] >>

HELP_PATTERN == COMMAND_PATTERNS[10]

\* if re.search(HELP_PATTERN, body): one entry however many matches.
HelpSearch(m) ==
    IF m.ok THEN <<[cmd |-> "help", m |-> m]>> ELSE <<>>

ExtractCommand(x) ==
    CASE x.cmd = "add" ->
            [kind |-> "add",
             feature |-> IfElse(x.m.groups[1], x.m.groups[2]),
             target  |-> IfElse(x.m.groups[3], x.m.groups[4])]
      [] x.cmd = "help" -> [kind |-> "help"]
      [] OTHER ->
            [kind |-> x.cmd, target |-> IfElse(x.m.groups[1], x.m.groups[2])]

\* The match objects in the order _extract_commands visits them.
CommentMatches(t) ==
    Flatten([p \in 1..Len(COMMENT_PATTERNS) |-> FindIter(t, COMMENT_PATTERNS[p], 1)])
        \o HelpSearch(Search(t, HELP_PATTERN, 1))

ExtractAll(ms) ==
    [raised |-> FALSE,
     commands |-> [k \in 1..Len(ms) |-> ExtractCommand(ms[k])],
     starts   |-> [k \in 1..Len(ms) |-> ms[k].m.start]]

\* self._extract_commands()
extract_commands(t) == ExtractAll(CommentMatches(t))

(***************************************************************************)
(* Input texts                                                             *)
(***************************************************************************)

\* Longest whitespace run written between a keyword and its argument.
MaxWs == 2

\* Longest free-form argument, in characters.
MaxArgLen == 3

\* Most pieces of an implement list.
MaxListLen == 5

\* Most commands written in one text.
MaxCmds == 2

SeqsUpTo(S, n) == UNION {[1..k -> S] : k \in 0..n}

Keywords == {COMMAND_PATTERNS[p].kw : p \in 1..Len(COMMAND_PATTERNS)}

WsRuns == SeqsUpTo(WS, MaxWs)

SpaceRuns == {[k \in 1..n |-> " "] : n \in 1..MaxWs}

\* Arguments of any shape: bare, quoted, unterminated, with a quote inside.
FreeArgs == SeqsUpTo({"a", Quote, " "}, MaxArgLen)

\* A keyword, a whitespace run (possibly empty), any argument.
FreeTexts == {kw \o w \o a : kw \in Keywords, w \in WsRuns, a \in FreeArgs}

\* Well-formed arguments for a pattern of the given shape.
SimpleArgs(shape) ==
    CASE shape = "target"    -> {<<"a">>, <<"B">>}
      [] shape = "add"       -> {<<"a", " ", "t", "o", " ", "B">>,
                                 <<"B", " ", "t", "o", " ", "a">>}
      [] shape = "implement" -> {<<"1">>, <<"0">>, All}
      [] shape = "help"      -> {<<>>}

\* More arguments for the single-target patterns: mixed case, quoted.
CaseArgs(shape) ==
    IF shape = "target"
    THEN SimpleArgs(shape) \cup {<<"a", "B">>, <<Quote, "B", " ", "a", Quote>>}
    ELSE SimpleArgs(shape)

Upper(s) == [k \in 1..Len(s) |-> ToUpper(s[k])]

\* /fix -> /Fix
Capitalised(s) == [k \in 1..Len(s) |-> IF k = 2 THEN ToUpper(s[k]) ELSE s[k]]

CaseForms(kw) == {kw, Upper(kw), Capitalised(kw)}

Segment(form, arg) == IF arg = <<>> THEN form ELSE form \o <<" ">> \o arg

\* One well-formed command, keyword in lower case.
SimpleSegs ==
    UNION {{Segment(COMMAND_PATTERNS[p].kw, a) : a \in SimpleArgs(COMMAND_PATTERNS[p].shape)}
           : p \in 1..Len(COMMAND_PATTERNS)}

\* One well-formed command, keyword in any of three case forms.
CaseTexts ==
    UNION {{Segment(f, a) : f \in CaseForms(COMMAND_PATTERNS[p].kw),
                            a \in CaseArgs(COMMAND_PATTERNS[p].shape)}
           : p \in 1..Len(COMMAND_PATTERNS)}

RECURSIVE Join(_)
Join(ss) ==
    IF Len(ss) = 1 THEN ss[1] ELSE ss[1] \o <<" ">> \o Join(Tail(ss))

\* Two to MaxCmds well-formed commands, a space between them.
SeqTexts == {Join(ss) : ss \in UNION {[1..k -> SimpleSegs] : k \in 2..MaxCmds}}

\* A command with a non-whitespace character right before the slash.
PrefixedTexts == {<<"x">> \o s : s \in SimpleSegs}

\* Texts without a slash.
NoSlashTexts == {Tail(s) : s \in SimpleSegs} \cup FreeArgs

AddToks == {<<"a">>, <<"B">>, To, <<Quote, "a", " ", "B", Quote>>, <<Quote, "a", Quote>>}

GoodSeps == {<<" ", "t", "o", " ">>, <<" ", " ", "t", "o", "\n">>}

BadSeps == {<<>>, <<" ">>, To, <<" ", "t", "o">>, <<"t", "o", " ">>,
            <<" ", "t", "o", "o", " ">>, <<" ", "T", "O", " ">>}

\* /add <feature><separator><target>
AddTexts ==
    {<<"/", "a", "d", "d", " ">> \o f \o sep \o g :
        f \in AddToks, sep \in GoodSeps \cup BadSeps, g \in AddToks}

ListPieces == {"1", ",", " ", "x"}

\* /implement, spaces, a list of up to MaxListLen pieces.
ImplementTexts ==
    {COMMAND_PATTERNS[7].kw \o w \o l :
        w \in SpaceRuns, l \in SeqsUpTo(ListPieces, MaxListLen)}

\* What stands between the quotes of a quoted argument: letters, spaces,
\* backslashes.
QuotedBodies == SeqsUpTo({"a", " ", "\\"}, MaxArgLen)

\* /fix "<body>", alone or with more text and a second quote after it.
QuotedTexts ==
    {COMMAND_PATTERNS[1].kw \o <<" ", Quote>> \o b \o <<Quote>> \o tl :
        b \in QuotedBodies, tl \in {<<>>, <<"a", Quote>>}}

\* A command inside a path: /x/fix a
PathTexts == {<<"/", "x">> \o s : s \in SimpleSegs}

Texts ==
    FreeTexts \cup CaseTexts \cup SeqTexts \cup PrefixedTexts \cup NoSlashTexts
        \cup AddTexts \cup ImplementTexts \cup QuotedTexts \cup PathTexts

(***************************************************************************)
(* The state machine: one text, one call of either function                *)
(***************************************************************************)

Init ==
    /\ text \in Texts
    /\ pc = "start"
    /\ impl = "none"
    /\ commands = <<>>
    /\ starts = <<>>
    /\ conv = Idle /\ proc = Idle /\ issue = Idle
    /\ analyzer = Idle /\ improver = Idle

\* The call returns r.commands, or is left by an exception.
Returned(name, r) ==
    /\ pc' = IF r.raised THEN "raised" ELSE "done"
    /\ impl' = name
    /\ commands' = r.commands
    /\ starts' = r.starts
    /\ UNCHANGED <<text, conv, proc, issue, analyzer, improver>>

\* commands = detect_commands(latest_content)
DetectCommands ==
    /\ pc = "start"
    /\ Returned("conversation", detect_commands(text))

\* commands = self._extract_commands()
ExtractCommands ==
    /\ pc = "start"
    /\ Returned("comment", extract_commands(text))

Next == DetectCommands \/ ExtractCommands

Spec == Init /\ [][Next]_vars

(***************************************************************************)
(* Properties                                                              *)
(***************************************************************************)

Conversation == impl = "conversation"

\* The kinds in the order of the pattern table.
KindOrder ==
    <<"fix", "improve", "document", "add", "analyze", "explain", "implement",
      "refactor", "test", "help">>

Rank(kind) == CHOOSE r \in 1..Len(KindOrder) : KindOrder[r] = kind

HelpKw == <<"/", "h", "e", "l", "p">>

\* The positions at which the word w is written in the text.
Occurrences(w) ==
    {i \in 1..Len(text) : i + Len(w) - 1 <= Len(text)
                          /\ SubSeq(text, i, i + Len(w) - 1) = w}

\* C1 as claimed: the commands returned appear in the order in which their
\* matched text starts in the input, whatever their kinds.
C1_LeftToRight ==
    pc = "done" =>
        \A i, j \in 1..Len(commands) : i < j => starts[i] < starts[j]

\* C1 as amended: the commands returned are grouped by kind, the kinds in
\* the order of the pattern table, and within one kind they appear in the
\* order in which their matched text starts in the input.
C1_GroupedByKind ==
    pc = "done" =>
        \A i, j \in 1..Len(commands) : i < j =>
            \/ Rank(commands[i].kind) < Rank(commands[j].kind)
            \/ /\ commands[i].kind = commands[j].kind
               /\ starts[i] < starts[j]

\* C1: /document a /fix B returns Fix before Document.
C1_Witness ==
    /\ pc = "done" /\ Conversation
    /\ Len(commands) = 2
    /\ commands[1].kind = "fix" /\ commands[2].kind = "document"
    /\ starts[2] < starts[1]

\* C2 as claimed: detect is total, it returns a list for every text and no
\* exception leaves it.
C2_NeverRaises == pc # "raised"

\* C3 as claimed: a text with exactly one /help and no other keyword yields
\* exactly [Help], with no argument.
C3_HelpAlone ==
    (/\ pc # "start"
     /\ Cardinality(Occurrences(HelpKw)) = 1
     /\ \A kw \in Keywords \ {HelpKw} : Occurrences(kw) = {})
        => (pc = "done" /\ commands = <<[kind |-> "help"]>>)

KwOf(kind) == COMMAND_PATTERNS[Rank(kind)].kw

SingleTargetKinds ==
    {"fix", "improve", "document", "explain", "analyze", "refactor", "test"}

\* The kinds _extract_commands knows.
CommentKinds == {"fix", "improve", "document", "add", "explain", "help"}

IsBare(v) == v # <<>> /\ \A k \in 1..Len(v) : v[k] \notin WS \cup {Quote}

Quoted(v) == <<Quote>> \o v \o <<Quote>>

\* Argument values and the ways to write each: bare when it can be, quoted.
ArgValues ==
    {<<"a">>, <<"B">>, <<"a", "B">>, <<"a", "a">>, To, <<" ">>, <<"a", " ">>,
     <<" ", "a">>, <<"B", " ", "a">>, <<"a", " ", "B">>}

ArgForms ==
    {[val |-> v, txt |-> v] : v \in {w \in ArgValues : IsBare(w)}}
        \cup {[val |-> v, txt |-> Quoted(v)] : v \in ArgValues}

\* Index lists and the ways to write each.
ListForms ==
    { [val |-> <<1>>,     txt |-> <<"1">>],
      [val |-> <<0>>,     txt |-> <<"0">>],
      [val |-> <<11>>,    txt |-> <<"1", "1">>],
      [val |-> <<1, 1>>,  txt |-> <<"1", ",", "1">>],
      [val |-> <<1, 1>>,  txt |-> <<"1", ",", " ", "1">>],
      [val |-> <<1, 11>>, txt |-> <<"1", ",", "1", "1">>],
      [val |-> <<11, 1>>, txt |-> <<"1", "1", ",", "1">>],
      [val |-> <<1, 11>>, txt |-> <<"1", ",", " ", "1", "1">>],
      [val |-> <<1, 1, 1>>, txt |-> <<"1", ",", "1", ",", "1">>] }

\* Command strings built from the grammar table, each with the command it
\* was built from.
RoundTrips ==
    {[text |-> KwOf(k) \o <<" ">> \o f.txt, cmd |-> [kind |-> k, target |-> f.val]]
        : k \in SingleTargetKinds, f \in ArgForms}
    \cup
    {[text |-> KwOf("add") \o <<" ">> \o f.txt \o <<" ", "t", "o", " ">> \o g.txt,
      cmd  |-> [kind |-> "add", feature |-> f.val, target |-> g.val]]
        : f \in ArgForms, g \in ArgForms}
    \cup
    {[text |-> KwOf("implement") \o <<" ">> \o l.txt,
      cmd  |-> [kind |-> "implement", indices |-> l.val]] : l \in ListForms}
    \cup
    {[text |-> KwOf("implement") \o <<" ">> \o All,
      cmd  |-> [kind |-> "implement", all |-> TRUE]],
     [text |-> HelpKw, cmd |-> [kind |-> "help"]]}

Has(c) == \E k \in 1..Len(commands) : commands[k] = c

\* C4 as claimed: a command string built from the grammar table, passed to
\* detect, gives back a command of the kind and with the argument values
\* it was built from.
C4_RoundTrip ==
    \A e \in RoundTrips :
        (pc # "start" /\ Conversation /\ text = e.text)
            => (pc = "done" /\ Has(e.cmd))

\* C5: /<keyword> t, for a single-target keyword and a bare token t without
\* whitespace, double quote or slash, returns exactly one command: that
\* kind with target t.
C5_BareTarget ==
    \A kind \in SingleTargetKinds :
        LET n == Len(KwOf(kind))
            t == SubSeq(text, n + 2, Len(text))
        IN  (/\ pc # "start"
             /\ Conversation \/ kind \in CommentKinds
             /\ Len(text) >= n + 2
             /\ SubSeq(text, 1, n) = KwOf(kind)
             /\ text[n + 1] = " "
             /\ \A k \in 1..Len(t) : t[k] \notin WS \cup {Quote, "/"})
                => (pc = "done" /\ commands = <<[kind |-> kind, target |-> t]>>)

\* C5: /refactor aB has returned Refactor with target aB.
C5_Witness ==
    /\ pc = "done" /\ Conversation
    /\ text = KwOf("refactor") \o <<" ", "a", "B">>
    /\ commands = <<[kind |-> "refactor", target |-> <<"a", "B">>]>>

\* The value a token stands for: a quoted token without its quotes.
ValueOf(tok) ==
    IF tok[1] = Quote THEN SubSeq(tok, 2, Len(tok) - 1) ELSE tok

\* C6: /add <feature><separator><target> with each argument bare or quoted
\* returns Add with that feature and that target when the separator is the
\* word `to` with whitespace on both sides, and no Add command otherwise.
C6_AddNeedsTo ==
    (pc # "start" /\ text \in AddTexts)
        => \A f \in AddToks, g \in AddToks, sep \in GoodSeps \cup BadSeps :
              text = KwOf("add") \o <<" ">> \o f \o sep \o g
                  => /\ pc = "done"
                     /\ IF sep \in GoodSeps
                        THEN commands = <<[kind |-> "add", feature |-> ValueOf(f),
                                           target |-> ValueOf(g)]>>
                        ELSE \A k \in 1..Len(commands) : commands[k].kind # "add"

\* C6: /add "a B" to a has returned Add with feature `a B` and target a.
C6_Witness ==
    /\ pc = "done"
    /\ text = KwOf("add") \o <<" ", Quote, "a", " ", "B", Quote, " ", "t", "o", " ", "a">>
    /\ commands = <<[kind |-> "add", feature |-> <<"a", " ", "B">>, target |-> <<"a">>]>>

\* The text is one command: it starts with the keyword of the given kind
\* and whitespace, and holds no other slash.
StartsWith(kind) ==
    /\ Len(text) > Len(KwOf(kind))
    /\ SubSeq(text, 1, Len(KwOf(kind))) = KwOf(kind)
    /\ text[Len(KwOf(kind)) + 1] \in WS
    /\ Occurrences(<<"/">>) = {1}

ArgStart(kind) ==
    CHOOSE j \in (Len(KwOf(kind)) + 2)..(Len(text) + 1) :
        /\ \A k \in (Len(KwOf(kind)) + 1)..(j - 1) : text[k] \in WS
        /\ j <= Len(text) => text[j] \notin WS

\* The text after the keyword and the whitespace that follows it.
Rest(kind) == SubSeq(text, ArgStart(kind), Len(text))

\* The longest prefix of s made of characters outside S.
PrefixNotIn(s, S) ==
    SubSeq(s, 1, CHOOSE n \in 0..Len(s) :
                    /\ \A k \in 1..n : s[k] \notin S
                    /\ n < Len(s) => s[n + 1] \in S)

\* The longest prefix of s made of characters of S.
PrefixIn(s, S) ==
    SubSeq(s, 1, CHOOSE n \in 0..Len(s) :
                    /\ \A k \in 1..n : s[k] \in S
                    /\ n < Len(s) => s[n + 1] \notin S)

\* The integer entries of a comma-separated list, in written order; an
\* entry counts when it is a run of digits with whitespace around it at most.
IntEntries(s) ==
    LET Num(e) == IsDigit(Strip(e))
        es == SelectSeq(Split(s), Num)
    IN  [k \in 1..Len(es) |-> IntOf(Strip(es[k]))]

\* C7 as claimed: /implement all selects All; /implement followed by a
\* comma-separated list selects Indices with exactly the integer entries of
\* the list in written order, a non-numeric entry being dropped without
\* effect on the other entries.
C7_AllEntries ==
    (pc # "start" /\ Conversation /\ StartsWith("implement"))
        => /\ Rest("implement") = All
                => (pc = "done" /\ commands = <<[kind |-> "implement", all |-> TRUE]>>)
           /\ (Rest("implement") # All /\ IntEntries(Rest("implement")) # <<>>)
                => /\ pc = "done"
                   /\ commands = <<[kind |-> "implement",
                                    indices |-> IntEntries(Rest("implement"))]>>

\* C7 as amended: /implement all selects All; /implement followed by a list
\* that starts with a digit selects Indices with, in written order, the
\* integer entries of the longest prefix of the list made of digits, commas
\* and whitespace only: an entry of that prefix that is empty or has
\* whitespace inside is dropped without effect on the others, and the
\* entries from the first other character on are not returned.
C7_PrefixEntries ==
    (pc # "start" /\ Conversation /\ StartsWith("implement"))
        => /\ Rest("implement") = All
                => (pc = "done" /\ commands = <<[kind |-> "implement", all |-> TRUE]>>)
           /\ (Rest("implement") # <<>> /\ Rest("implement")[1] \in Digits)
                => /\ pc = "done"
                   /\ commands =
                        <<[kind |-> "implement",
                           indices |-> IntEntries(PrefixIn(Rest("implement"),
                                                           ImplementClass))]>>

\* C7: /implement 1,x,1 has returned Indices [1]: the list is cut at x.
C7_Witness ==
    /\ pc = "done" /\ Conversation
    /\ text = KwOf("implement") \o <<" ", "1", ",", "x", ",", "1">>
    /\ commands = <<[kind |-> "implement", indices |-> <<1>>]>>

\* C8 as claimed: /implement followed by an argument with neither `all` nor
\* a digit in it produces no Implement command, and no Implement command
\* returned has an empty index list.
C8_NoEmptyImplement ==
    (pc # "start" /\ Conversation)
        => /\ (/\ StartsWith("implement")
               /\ \A k \in 1..Len(text) : text[k] \notin Digits
               /\ Occurrences(All) = {})
                  => \A k \in 1..Len(commands) : commands[k].kind # "implement"
           /\ \A k \in 1..Len(commands) :
                  commands[k].kind = "implement"
                      => commands[k] # [kind |-> "implement", indices |-> <<>>]

\* The command expected from a well-formed segment of the given kind.
Expected(kind, arg) ==
    CASE kind \in SingleTargetKinds -> [kind |-> kind, target |-> ValueOf(arg)]
      [] kind = "add" ->
            [kind |-> "add", feature |-> <<arg[1]>>, target |-> <<arg[Len(arg)]>>]
      [] kind = "implement" ->
            IF arg = All THEN [kind |-> "implement", all |-> TRUE]
            ELSE [kind |-> "implement", indices |-> <<IntOf(arg)>>]

ShapeOf(kind) == COMMAND_PATTERNS[Rank(kind)].shape

ArgKinds == SingleTargetKinds \cup {"add", "implement"}

Known(kind) == Conversation \/ kind \in CommentKinds

\* C9 as claimed: a keyword written in any mix of upper and lower case is
\* recognised as its lower-case form, and the argument keeps its case.
C9_CaseInsensitive ==
    (pc # "start" /\ text \in CaseTexts)
        => \A kind \in ArgKinds :
              \A form \in CaseForms(KwOf(kind)), a \in CaseArgs(ShapeOf(kind)) :
                  (Known(kind) /\ text = Segment(form, a))
                      => (pc = "done" /\ commands = <<Expected(kind, a)>>)

\* C9 as amended: keyword matching is case-sensitive, only the lower-case
\* keyword is recognised and a keyword with an upper-case letter in it
\* yields no command; the argument of a recognised command keeps its case.
C9_CaseSensitive ==
    (pc # "start" /\ text \in CaseTexts)
        => \A kind \in ArgKinds :
              \A form \in CaseForms(KwOf(kind)), a \in CaseArgs(ShapeOf(kind)) :
                  (Known(kind) /\ text = Segment(form, a))
                      => /\ pc = "done"
                         /\ commands = IF form = KwOf(kind)
                                       THEN <<Expected(kind, a)>>
                                       ELSE <<>>

\* C9: /FIX B has returned no command.
C9_Witness ==
    /\ pc = "done" /\ Conversation
    /\ text = <<"/", "F", "I", "X", " ", "B">>
    /\ commands = <<>>

\* The text is one command of the given kind whose argument does not begin
\* with a double quote.
UnquotedArg(kind) ==
    /\ StartsWith(kind)
    /\ Rest(kind) # <<>>
    /\ Rest(kind)[1] # Quote

\* C10 as claimed: an unquoted argument is captured as the longest run of
\* non-whitespace characters after the keyword, up to the next whitespace
\* character or the end of the input.
C10_UpToWhitespace ==
    \A kind \in SingleTargetKinds :
        (pc # "start" /\ Known(kind) /\ UnquotedArg(kind))
            => /\ pc = "done"
               /\ commands = <<[kind |-> kind,
                                target |-> PrefixNotIn(Rest(kind), WS)]>>

\* C10 as amended: an unquoted argument is captured as the longest run of
\* characters that are neither whitespace nor a double quote: it extends up
\* to the next whitespace character, the next double quote or the end of
\* the input, and is cut short at no other character.
C10_UpToWhitespaceOrQuote ==
    \A kind \in SingleTargetKinds :
        (pc # "start" /\ Known(kind) /\ UnquotedArg(kind))
            => /\ pc = "done"
               /\ commands = <<[kind |-> kind,
                                target |-> PrefixNotIn(Rest(kind), WS \cup {Quote})]>>

\* C10: /fix a"a has returned Fix with target a.
C10_Witness ==
    /\ pc = "done" /\ Conversation
    /\ text = KwOf("fix") \o <<" ", "a", Quote, "a">>
    /\ commands = <<[kind |-> "fix", target |-> <<"a">>]>>

(***************************************************************************)
(* Quoted arguments                                                        *)
(***************************************************************************)

\* The text is one command of the given kind whose argument opens with a
\* double quote that is closed later in the text.
QuotedArgument(kind) ==
    /\ StartsWith(kind)
    /\ ArgStart(kind) <= Len(text)
    /\ Rest(kind)[1] = Quote
    /\ \E k \in 2..Len(Rest(kind)) : Rest(kind)[k] = Quote

\* The text between the opening quote and the next double quote.
Body(kind) == PrefixNotIn(Tail(Rest(kind)), {Quote})

\* C11: when the argument of a command is a double-quoted string, the
\* captured value is exactly the text between the opening quote and the
\* next double quote, character for character: whitespace and backslashes
\* inside are kept as written and the quotes are left out.
C11_QuotedVerbatim ==
    \A kind \in SingleTargetKinds :
        (pc # "start" /\ Known(kind) /\ QuotedArgument(kind))
            => /\ pc = "done"
               /\ Body(kind) # <<>>
                    => commands = <<[kind |-> kind, target |-> Body(kind)]>>
               /\ \A k \in 1..Len(commands) : commands[k].target = Body(kind)

\* C11: /fix " \" a" has returned Fix with the target made of a space and
\* a backslash.
C11_Witness ==
    /\ pc = "done" /\ Conversation
    /\ text = KwOf("fix") \o <<" ", Quote, " ", "\\", Quote, "a", Quote>>
    /\ commands = <<[kind |-> "fix", target |-> <<" ", "\\">>]>>

\* The text is one command of the given kind whose argument opens with an
\* empty pair of double quotes.
EmptyQuotes(kind) ==
    /\ StartsWith(kind)
    /\ ArgStart(kind) < Len(text)
    /\ Rest(kind)[1] = Quote
    /\ Rest(kind)[2] = Quote

\* C12 as claimed: a keyword followed by an empty pair of double quotes
\* yields a command of that kind whose argument is the empty string.
C12_EmptyQuotedArgument ==
    \A kind \in SingleTargetKinds :
        (pc # "start" /\ Known(kind) /\ EmptyQuotes(kind))
            => /\ pc = "done"
               /\ commands = <<[kind |-> kind, target |-> <<>>]>>

\* C12 as amended: a single-target keyword followed by an empty pair of
\* double quotes yields no command and does not raise: the quoted
\* alternative needs one character between the quotes and the unquoted one
\* takes no double quote.
C12_EmptyQuotesNoCommand ==
    \A kind \in SingleTargetKinds :
        (pc # "start" /\ Known(kind) /\ EmptyQuotes(kind))
            => /\ pc = "done"
               /\ commands = <<>>

\* C12: /fix "" has returned no command.
C12_Witness ==
    /\ pc = "done" /\ Conversation
    /\ text = KwOf("fix") \o <<" ", Quote, Quote>>
    /\ commands = <<>>

\* C13: in every command returned that carries a target, and for add a
\* feature, that argument is a string of one character at least: it is
\* never empty and never missing.
C13_NonEmptyArguments ==
    pc = "done"
        => \A k \in 1..Len(commands) :
              /\ commands[k].kind \in SingleTargetKinds \cup {"add"}
                    => Truthy(commands[k].target)
              /\ commands[k].kind = "add" => Truthy(commands[k].feature)

\* C13: /add B to a has returned Add with feature B and target a.
C13_Witness ==
    /\ pc = "done" /\ Conversation
    /\ text = KwOf("add") \o <<" ", "B", " ", "t", "o", " ", "a">>
    /\ commands = <<[kind |-> "add", feature |-> <<"B">>, target |-> <<"a">>]>>

(***************************************************************************)
(* Repeated commands                                                       *)
(***************************************************************************)

\* How many of the returned commands are of the given kind.
CountOf(kind) == Cardinality({k \in 1..Len(commands) : commands[k].kind = kind})

\* C14: a text containing k occurrences of /help, k >= 1, yields exactly k
\* Help commands, one per occurrence, never deduplicated to one.
C14_HelpPerOccurrence ==
    (pc # "start" /\ Occurrences(HelpKw) # {})
        => /\ pc = "done"
           /\ CountOf("help") = Cardinality(Occurrences(HelpKw))

\* Two to MaxCmds well-formed arguments for one kind.
ArgRuns(kind) == UNION {[1..n -> SimpleArgs(ShapeOf(kind))] : n \in 2..MaxCmds}

\* The same keyword written once per argument, and the commands expected.
Repeated ==
    UNION {{[kind |-> kind,
             text |-> Join([i \in 1..Len(as) |-> Segment(KwOf(kind), as[i])]),
             cmds |-> [i \in 1..Len(as) |-> Expected(kind, as[i])]]
            : as \in ArgRuns(kind)}
           : kind \in ArgKinds}

\* C15: when the same argument-taking keyword occurs n times in one text,
\* each time followed by a valid argument, n commands of that kind are
\* returned, one per occurrence and in the order written, each with its own
\* argument; occurrences with equal arguments are not merged.
C15_OnePerOccurrence ==
    pc # "start"
        => \A e \in Repeated :
              (text = e.text /\ Known(e.kind))
                  => (pc = "done" /\ commands = e.cmds)

\* C15: /fix a /fix a has returned Fix with target a twice.
C15_Witness ==
    /\ pc = "done" /\ Conversation
    /\ text = KwOf("fix") \o <<" ", "a", " ">> \o KwOf("fix") \o <<" ", "a">>
    /\ commands = <<[kind |-> "fix", target |-> <<"a">>],
                    [kind |-> "fix", target |-> <<"a">>]>>

(***************************************************************************)
(* Index lists                                                             *)
(***************************************************************************)

\* The index lists of the implement commands returned.
IndexLists ==
    {commands[k].indices :
        k \in {n \in 1..Len(commands) : "indices" \in DOMAIN commands[n]}}

\* C16 as claimed: every index list returned for an implement command holds
\* positive integers only, each element being 1 or more.
C16_PositiveIndices ==
    pc = "done" => \A l \in IndexLists : \A k \in 1..Len(l) : l[k] >= 1

\* C16 as amended: every index list returned for an implement command
\* holds non-negative integers only; 0 is accepted, /implement 0 giving the
\* list [0].
C16_NonNegativeIndices ==
    /\ pc = "done" => \A l \in IndexLists : \A k \in 1..Len(l) : l[k] >= 0
    /\ (pc # "start" /\ Conversation
            /\ text = Segment(KwOf("implement"), <<"0">>))
          => (pc = "done" /\ commands = <<[kind |-> "implement", indices |-> <<0>>]>>)

\* C16: /implement 0 has returned the index list [0].
C16_Witness ==
    /\ pc = "done" /\ Conversation
    /\ text = KwOf("implement") \o <<" ", "0">>
    /\ IndexLists = {<<0>>}

(***************************************************************************)
(* Keywords without a target                                               *)
(***************************************************************************)

\* The text holds one slash, that of the keyword of the given kind at its
\* start, and the keyword has no target on its line: only whitespace
\* follows it up to the end of the text, or the whitespace after it holds a
\* line break.
NoTarget(kind) ==
    /\ Len(text) >= Len(KwOf(kind))
    /\ SubSeq(text, 1, Len(KwOf(kind))) = KwOf(kind)
    /\ Occurrences(<<"/">>) = {1}
    /\ \/ Len(KwOf(kind)) + RunIn(text, Len(KwOf(kind)) + 1, WS) = Len(text)
       \/ \E k \in 1..RunIn(text, Len(KwOf(kind)) + 1, WS) :
             text[Len(KwOf(kind)) + k] = "\n"

\* C17: a single-target keyword with no target (followed by the end of the
\* input, by whitespace only up to the end of the input, or by a line break
\* before any argument) yields no command: the call does not raise and no
\* text of a later line is taken as the target.
C17_NoTargetNoCommand ==
    \A kind \in SingleTargetKinds :
        (pc # "start" /\ Known(kind) /\ NoTarget(kind))
            => /\ pc = "done"
               /\ commands = <<>>

(***************************************************************************)
(* Where a keyword is found                                                *)
(***************************************************************************)

\* C18: for every text that holds no slash the empty sequence is returned,
\* and the call does not raise.
C18_NoSlashNoCommand ==
    (pc # "start" /\ Occurrences(<<"/">>) = {})
        => (pc = "done" /\ commands = <<>>)

\* C18: the text `help` has been scanned and nothing was returned.
C18_Witness ==
    /\ pc = "done" /\ Conversation
    /\ text = Tail(HelpKw)
    /\ commands = <<>>

\* What is written right before the slash of the keyword: a letter, a path.
Prefixes == {<<"x">>, <<"/", "x">>}

\* A well-formed command behind a prefix, the command expected from it and
\* the position of its slash.
PrefixedCommands ==
    UNION {{[kind  |-> kind,
             text  |-> pre \o Segment(KwOf(kind), a),
             cmd   |-> Expected(kind, a),
             start |-> Len(pre) + 1]
            : pre \in Prefixes, a \in SimpleArgs(ShapeOf(kind))}
           : kind \in ArgKinds}

\* C19: the keyword is not anchored to a word boundary: a command whose
\* slash directly follows a non-whitespace character (x/fix a, /x/fix a) is
\* recognised as it is at the start of the text, with the same kind and the
\* same argument, the match starting at the slash of the keyword.
C19_NotAnchored ==
    pc # "start"
        => /\ \A e \in PrefixedCommands :
                 (text = e.text /\ Known(e.kind))
                     => /\ pc = "done"
                        /\ commands = <<e.cmd>>
                        /\ starts = <<e.start>>
           /\ \A pre \in Prefixes :
                 (text = pre \o HelpKw /\ ~Conversation)
                     => (pc = "done" /\ commands = <<[kind |-> "help"]>>)

\* C19: x/fix a has returned Fix with target a, matched from position 2.
C19_Witness ==
    /\ pc = "done" /\ Conversation
    /\ text = <<"x">> \o KwOf("fix") \o <<" ", "a">>
    /\ commands = <<[kind |-> "fix", target |-> <<"a">>]>>
    /\ starts = <<2>>

\* The patterns of the table that match starting at position i of the text.
MatchingAt(i) ==
    {p \in 1..Len(COMMAND_PATTERNS) : MatchAt(text, i, COMMAND_PATTERNS[p]).ok}

\* C20: no ambiguity between kinds: at every position of every text at most
\* one of the ten patterns matches, and no two of the commands returned
\* were matched from the same position.
C20_OneKindPerPosition ==
    /\ (pc # "start" /\ Conversation)
          => \A i \in 1..Len(text) : Cardinality(MatchingAt(i)) <= 1
    /\ pc = "done"
          => \A j, k \in 1..Len(starts) : j # k => starts[j] # starts[k]

\* C20: in /implement 1 /improve a, two keywords that share their first
\* three characters, one pattern matches at each slash and Improve and
\* Implement have been returned from different positions.
C20_Witness ==
    /\ pc = "done" /\ Conversation
    /\ text = KwOf("implement") \o <<" ", "1", " ">> \o KwOf("improve") \o <<" ", "a">>
    /\ MatchingAt(1) = {Rank("implement")}
    /\ MatchingAt(14) = {Rank("improve")}
    /\ starts = <<14, 1>>

(***************************************************************************)
(* One run of process_conversation.py                                      *)
(***************************************************************************)

\* Most comments under the issue or pull request.
MaxComments == 2

\* HTTP status codes the GitHub API answers with.
Ok == 200

Created == 201

Statuses == {Ok, Created, 403}

\* Short texts standing for what a model call or a handler gives back.
Reply == <<"r">>

ErrorText == <<"E">>

\* Bodies of the issue and of its comments: talk, one command, two commands
\* of different kinds, /help.
Bodies ==
    {<<"h", "i">>,
     KwOf("fix") \o <<" ", "a">>,
     KwOf("test") \o <<" ", "B", " ">> \o KwOf("fix") \o <<" ", "a">>,
     HelpKw}

\* created_at, an ISO 8601 time: compared as strings, in the order of time.
Times == {1, 2}

\* The issue or pull request itself; a null body is None.
Originals ==
    {[content |-> b, created_at |-> t, is_original |-> TRUE] :
        b \in Bodies \cup {None}, t \in Times}

Comments ==
    {[content |-> b, created_at |-> t, is_original |-> FALSE] :
        b \in Bodies, t \in Times}

\* The history left as fetched: the original entry, then the comments.
SortAsFetched(h) == h

\* history.sort(key=lambda x: x['created_at']) is stable: e goes behind the
\* entries that are not later than it.
InsertByTime(sorted, e, n) == SubSeq(sorted, 1, n) \o <<e>> \o SubSeq(sorted, n + 1, Len(sorted))

NotLater(sorted, e) ==
    Cardinality({k \in 1..Len(sorted) : sorted[k].created_at <= e.created_at})

RECURSIVE SortByTime(_)
SortByTimeInto(sorted, e) == InsertByTime(sorted, e, NotLater(sorted, e))

SortByTime(h) ==
    IF h = <<>> THEN <<>>
    ELSE SortByTimeInto(SortByTime(SubSeq(h, 1, Len(h) - 1)), h[Len(h)])

\* fetch_conversation_history: [] when a request fails, else the original
\* entry and the comments, sorted by creation time.
fetch_conversation_history(original, comments, cs, ds) ==
    IF cs # Ok THEN <<>>
    ELSE IF ds # Ok THEN <<>>
    ELSE SortByTime(<<original>> \o comments)

\* The run before main is called.
ConvStarts ==
    {[pc |-> "start", original |-> o, comments |-> cs, is_stale |-> st,
      history |-> <<>>, scanned |-> <<>>, commands |-> <<>>,
      executed |-> <<>>, response_text |-> None, posted |-> <<>>] :
        o \in Originals, cs \in SeqsUpTo(Comments, MaxComments), st \in BOOLEAN}

convOthers == <<text, pc, impl, commands, starts, proc, issue, analyzer, improver>>

\* history = fetch_conversation_history()
FetchHistory ==
    /\ conv.pc = "start"
    /\ \E cs \in Statuses, ds \in Statuses :
          conv' = [conv EXCEPT
                     !.history = fetch_conversation_history(conv.original,
                                                            conv.comments, cs, ds),
                     !.pc = "main"]
    /\ UNCHANGED convOthers

\* if not history: return
NoHistory ==
    /\ conv.pc = "main"
    /\ conv.history = <<>>
    /\ conv' = [conv EXCEPT !.pc = "done"]
    /\ UNCHANGED convOthers

\* Where main goes once it holds a response text: `if response_text:`.
ToPost(r, post) == IF Truthy(r) THEN post ELSE "done"

\* What generate_stale_followup and execute_command give back.  The file
\* calls them and leaves their definitions out; each is taken to return a
\* text, possibly empty or None, and to post nothing itself.
Followups == {Reply, <<>>, None}

Results == {Reply, ErrorText}

\* if is_stale: response_text = generate_stale_followup(history)
StaleFollowup ==
    /\ conv.pc = "main"
    /\ conv.history # <<>>
    /\ conv.is_stale
    /\ \E r \in Followups :
          conv' = [conv EXCEPT !.response_text = r,
                               !.pc = ToPost(r, "post_stale")]
    /\ UNCHANGED convOthers

\* detect_commands(latest_content); a None body makes re.finditer raise.
DetectIn(content) ==
    IF content = None THEN [raised |-> TRUE, commands |-> <<>>, starts |-> <<>>]
    ELSE detect_commands(content)

\* Where main goes with the commands detected.
Detected(latest, r) ==
    [conv EXCEPT !.scanned = Append(conv.scanned, latest),
                 !.commands = r.commands,
                 !.pc = IF r.raised THEN "raised"
                        ELSE IF r.commands # <<>> THEN "execute"
                        ELSE "generate"]

\* `if is_stale:` does not hold: main goes on to the latest message.
NotStale ==
    /\ conv.pc = "main"
    /\ conv.history # <<>>
    /\ ~conv.is_stale
    /\ conv' = [conv EXCEPT !.pc = "latest"]
    /\ UNCHANGED convOthers

\* latest_message = history[-1]; commands = detect_commands(latest_content)
DetectLatest ==
    /\ conv.pc = "latest"
    /\ conv' = Detected(conv.history[Len(conv.history)],
                        DetectIn(conv.history[Len(conv.history)].content))
    /\ UNCHANGED convOthers

\* Every detected command handed to execute_command.
DispatchedAll(cmds) == cmds

\* The commands main hands to execute_command: the first one.
Dispatched(cmds) == <<cmds[1]>>

\* cmd_type, cmd_args = commands[0]; response_text = execute_command(...)
ExecuteFirst ==
    /\ conv.pc = "execute"
    /\ \E r \in Results :
          conv' = [conv EXCEPT
                     !.executed = conv.executed \o Dispatched(conv.commands),
                     !.response_text = r,
                     !.pc = ToPost(r, "post")]
    /\ UNCHANGED convOthers

\* generate_response(history): the model's answer (which may be empty or
\* None), or the text of the except branch when the call raises.
generate_response(answer, raises) == IF raises THEN ErrorText ELSE answer

\* else: response_text = generate_response(history)
GenerateReply ==
    /\ conv.pc = "generate"
    /\ \E answer \in {Reply, <<>>, None}, raises \in BOOLEAN :
          conv' = [conv EXCEPT
                     !.response_text = generate_response(answer, raises),
                     !.pc = ToPost(generate_response(answer, raises), "post")]
    /\ UNCHANGED convOthers

\* post_response on the stale path with the `return` behind it left out:
\* main goes on to the latest message.
AfterPostNoReturn(at) == IF at = "post_stale" THEN "latest" ELSE "done"

\* Where main goes after post_response: it returns on the stale path and
\* ends on the other.
AfterPost(at) == "done"

\* post_response(response_text): one POST, answered with a status.
PostResponse ==
    /\ conv.pc \in {"post", "post_stale"}
    /\ \E status \in Statuses :
          conv' = [conv EXCEPT
                     !.posted = Append(conv.posted,
                                       [body |-> conv.response_text,
                                        accepted |-> status = Created]),
                     !.pc = AfterPost(conv.pc)]
    /\ UNCHANGED convOthers

ConvNext ==
    \/ FetchHistory
    \/ NoHistory
    \/ StaleFollowup
    \/ NotStale
    \/ DetectLatest
    \/ ExecuteFirst
    \/ GenerateReply
    \/ PostResponse

(***************************************************************************)
(* Properties of the conversation run                                      *)
(***************************************************************************)

\* The entries the API holds: the issue or pull request, then its comments.
Entries == <<conv.original>> \o conv.comments

\* Both requests of fetch_conversation_history were made and one failed.
FetchFailed == conv.pc \notin {"idle", "start"} /\ conv.history = <<>>

\* C26: commands are detected only in the entry with the greatest creation
\* time, be it the original body or a comment; nothing of an earlier entry
\* is scanned or executed; when a fetch of the history fails nothing is
\* scanned and nothing is posted.
C26_LatestOnly ==
    conv.pc # "idle"
        => /\ Len(conv.scanned) <= 1
           /\ \A k \in 1..Len(conv.scanned) :
                 /\ \E n \in 1..Len(Entries) : Entries[n] = conv.scanned[k]
                 /\ \A n \in 1..Len(Entries) :
                       Entries[n].created_at <= conv.scanned[k].created_at
                 /\ conv.commands = DetectIn(conv.scanned[k].content).commands
           /\ \A k \in 1..Len(conv.executed) :
                 /\ conv.scanned # <<>>
                 /\ \E n \in 1..Len(conv.commands) :
                       conv.commands[n] = conv.executed[k]
           /\ FetchFailed => (conv.scanned = <<>> /\ conv.posted = <<>>)

\* C26: the issue body /fix a is later than the comment /test B /fix a; the
\* body has been scanned, Fix executed and Test of the comment left alone.
C26_Witness ==
    /\ conv.pc = "done"
    /\ conv.original = [content |-> KwOf("fix") \o <<" ", "a">>,
                        created_at |-> 2, is_original |-> TRUE]
    /\ conv.comments =
          <<[content |-> KwOf("test") \o <<" ", "B", " ">> \o KwOf("fix") \o <<" ", "a">>,
             created_at |-> 1, is_original |-> FALSE]>>
    /\ conv.scanned = <<conv.original>>
    /\ conv.executed = <<[kind |-> "fix", target |-> <<"a">>]>>
    /\ Len(conv.posted) = 1

\* C28: one run posts at most one comment, whatever the path through main,
\* and on the stale path nothing is scanned for commands and nothing is
\* executed.
C28_OnePost ==
    conv.pc # "idle"
        => /\ Len(conv.posted) <= 1
           /\ conv.is_stale
                => (conv.scanned = <<>> /\ conv.commands = <<>> /\ conv.executed = <<>>)

\* C28: a stale run has posted its follow-up and ended; the latest message,
\* /fix a, was not scanned.
C28_Witness ==
    /\ conv.pc = "done"
    /\ conv.is_stale
    /\ conv.comments = <<[content |-> KwOf("fix") \o <<" ", "a">>,
                          created_at |-> 2, is_original |-> FALSE]>>
    /\ conv.posted = <<[body |-> Reply, accepted |-> TRUE]>>
    /\ conv.scanned = <<>>


(***************************************************************************)
(* Code taken out of a model answer                                        *)
(***************************************************************************)

\* The backquote character, which a string of this language cannot hold.
Tick == "<tick>"

Fence == <<Tick, Tick, Tick>>

Newline == <<"\n">>

Java == <<"j", "a", "v", "a">>

Xml == <<"x", "m", "l">>

\* The characters \w matches.
WordChars ==
    {LowerCase[k] : k \in 1..26} \cup {UpperCase[k] : k \in 1..26}
        \cup Digits \cup {"_"}

\* Where the code starts behind an opening fence that ends before p, or 0:
\* (?:java)?\n in the comment script, (?:\w+)?\n in the pull request
\* script.  The optional group is greedy; giving it up leaves a character
\* of the group where \n is wanted, so one try decides.
OpenEnd(t, p, lang) ==
    IF lang = "java"
    THEN IF LitAt(t, p, Java \o Newline) THEN p + Len(Java) + 1
         ELSE IF LitAt(t, p, Newline) THEN p + 1
         ELSE 0
    ELSE IF LitAt(t, p + RunIn(t, p, WordChars), Newline)
         THEN p + RunIn(t, p, WordChars) + 1
         ELSE 0

\* (.*?) and the closing newline and fence, with re.DOTALL, from b: the
\* group is lazy, so the code ends before the first
\* newline that a fence follows.
CodeFrom(t, b) ==
    LET ends == {j \in b..Len(t) : LitAt(t, j, Newline \o Fence)}
    IN  IF b = 0 \/ ends = {} THEN NoMatch
        ELSE [ok |-> TRUE, code |-> SubSeq(t, b, Min(ends) - 1)]

\* The fence pattern matched at position i.
FenceAt(t, i, lang) ==
    IF LitAt(t, i, Fence) THEN CodeFrom(t, OpenEnd(t, i + Len(Fence), lang))
    ELSE NoMatch

\* code_match = re.search(<fence pattern>, code, re.DOTALL)
RECURSIVE FenceSearch(_, _, _)
FenceSearch(t, lang, i) ==
    IF i > Len(t) THEN NoMatch
    ELSE FirstOk(FenceAt(t, i, lang), FenceSearch(t, lang, i + 1))

\* if code_match: code = code_match.group(1)
CodeOf(answer, m) == IF m.ok THEN m.code ELSE answer

\* The code a handler takes out of the model's answer.
strip_fence(answer, lang) == CodeOf(answer, FenceSearch(answer, lang, 1))

\* A piece of code in a fenced block.
Fenced(lang, code) == Fence \o lang \o Newline \o code \o Newline \o Fence

\* What a file holds before the run, and a code that differs from it.
Content == <<"x", "\n", "y">>

OtherCode == <<"z">>

\* Text a model puts around a fenced block.
Around == {<<>>, <<"t", "\n">>}

\* Answers of the model to a request for code, each with the code the
\* comment script (java) and the pull request script (word) are to find in
\* it: the code alone; a block left open; the code in a fenced block with or
\* without a language and with text around it, where a language other than
\* java leaves the comment script with the whole answer; two blocks, of
\* which the first counts.
AnswerForms ==
    {[text |-> c, java |-> c, word |-> c] :
        c \in {Content, OtherCode, Fence \o Java \o Newline \o Content}}
      \cup
    {[text |-> pre \o Fenced(lang, code) \o pre, java |-> code, word |-> code] :
        pre \in Around, lang \in {<<>>, Java}, code \in {Content, OtherCode}}
      \cup
    {[text |-> pre \o Fenced(Xml, code) \o pre,
      java |-> pre \o Fenced(Xml, code) \o pre, word |-> code] :
        pre \in Around, code \in {Content, OtherCode}}
      \cup
    {[text |-> Fenced(Java, Content) \o Newline \o Fenced(Java, OtherCode),
      java |-> Content, word |-> Content]}

Answers == {form.text : form \in AnswerForms}

(***************************************************************************)
(* One run of process_comment_command.py                                   *)
(***************************************************************************)

\* Comment bodies: talk, one command, commands of one kind and of several
\* kinds, on a file that exists (a), one that does not (B) and a package (p).
ProcBodies ==
    {<<"h", "i">>,
     KwOf("fix") \o <<" ", "a">>,
     KwOf("fix") \o <<" ", "B", " ">> \o KwOf("fix") \o <<" ", "a">>,
     KwOf("document") \o <<" ", "a", " ">> \o KwOf("improve") \o <<" ", "a">>,
     KwOf("add") \o <<" ", "f", " ", "t", "o", " ", "a", " ">>
        \o KwOf("explain") \o <<" ", "a">>,
     KwOf("add") \o <<" ", "f", " ", "t", "o", " ", "p", " ">> \o HelpKw}

\* The files of the checkout, by path, and the packages under JAVA_SRC_DIR.
Files == [path \in {<<"a">>} |-> Content]

Packages == {<<"p">>}

DotJava == <<".", "j", "a", "v", "a">>

\* What happens around one handler call: the handler raises outside its own
\* try block; the model's answer, None when the API call raises; whether
\* git add succeeds.
Outcomes ==
    {[raises |-> TRUE, answer |-> None, staged |-> FALSE]}
        \cup {[raises |-> FALSE, answer |-> a, staged |-> s] :
                a \in Answers \cup {None}, s \in BOOLEAN}

\* self._find_file(target): the path of the file, or None.
_find_file(files, target) ==
    IF target \in DOMAIN files THEN target
    ELSE IF target \o DotJava \in DOMAIN files THEN target \o DotJava
    ELSE None

\* with open(path, 'w') as f: f.write(code)
WriteFile(files, path, code) ==
    [n \in DOMAIN files \cup {path} |-> IF n = path THEN code ELSE files[n]]

\* What a handler hands back: the processor after it, and its text.
Gave(p, handler, result) ==
    [p |-> p, handler |-> handler, raised |-> FALSE, caught |-> FALSE,
     result |-> result]

\* The handler left by an exception.
Raised(p, handler) ==
    [p |-> p, handler |-> handler, raised |-> TRUE, caught |-> FALSE,
     result |-> None]

\* The file written, then git add: self.changes_made gets its entry and the
\* handler returns its success text only when git add succeeded.
Staged(p, w, path, code, staged) ==
    IF staged
    THEN Gave([p EXCEPT !.files = WriteFile(p.files, path, code),
                        !.writes = Append(p.writes, path),
                        !.staged = p.staged \cup {path},
                        !.changes_made = Append(p.changes_made, w.change)],
              w.handler, w.ok)
    ELSE Gave([p EXCEPT !.files = WriteFile(p.files, path, code),
                        !.writes = Append(p.writes, path)],
              w.handler, w.failed \o <<": ", "CalledProcessError">>)

\* The equality test left out: the code is written whatever it is.
RewrittenAlways(p, w, path, code, staged) == Staged(p, w, path, code, staged)

\* if fixed_code == content: return f"No issues found in {target}"
Rewritten(p, w, path, code, staged) ==
    IF code = p.files[path] THEN Gave(p, w.handler, w.same)
    ELSE Staged(p, w, path, code, staged)

\* The body of _fix_code, _improve_code and _document_code, which differ in
\* their words alone.
RewriteCode(p, w, path, o) ==
    IF o.raises THEN Raised(p, w.handler)
    ELSE IF path = None THEN Gave(p, w.handler, w.missing)
    ELSE IF o.answer = None
         THEN Gave(p, w.handler, w.failed \o <<": ", "APIError">>)
    ELSE Rewritten(p, w, path, strip_fence(o.answer, "java"), o.staged)

FixWords(target) ==
    [handler |-> "_fix_code",
     missing |-> <<"Could not find target file: ">> \o target,
     same    |-> <<"No issues found in ">> \o target,
     change  |-> <<"Fixed issues in ">> \o target,
     ok      |-> <<"Successfully fixed issues in ">> \o target,
     failed  |-> <<"Failed to fix ">> \o target]

ImproveWords(target) ==
    [handler |-> "_improve_code",
     missing |-> <<"Could not find target file: ">> \o target,
     same    |-> <<"No improvements identified for ">> \o target,
     change  |-> <<"Improved code quality in ">> \o target,
     ok      |-> <<"Successfully improved code quality in ">> \o target,
     failed  |-> <<"Failed to improve ">> \o target]

DocumentWords(target) ==
    [handler |-> "_document_code",
     missing |-> <<"Could not find target file: ">> \o target,
     same    |-> <<"No documentation changes needed for ">> \o target,
     change  |-> <<"Added documentation to ">> \o target,
     ok      |-> <<"Successfully added documentation to ">> \o target,
     failed  |-> <<"Failed to document ">> \o target]

_fix_code(p, target, o) ==
    RewriteCode(p, FixWords(target), _find_file(p.files, target), o)

_improve_code(p, target, o) ==
    RewriteCode(p, ImproveWords(target), _find_file(p.files, target), o)

_document_code(p, target, o) ==
    RewriteCode(p, DocumentWords(target), _find_file(p.files, target), o)

\* ''.join(word.capitalize() for word in feature.split())
RECURSIVE ClassName(_, _)
ClassName(f, k) ==
    IF k > Len(f) THEN <<>>
    ELSE IF f[k] \in WS THEN ClassName(f, k + 1)
    ELSE <<IF k = 1 \/ f[k - 1] \in WS THEN ToUpper(f[k]) ELSE ToLower(f[k])>>
            \o ClassName(f, k + 1)

EndsWith(s, suffix) ==
    Len(s) >= Len(suffix) /\ LitAt(s, Len(s) - Len(suffix) + 1, suffix)

\* The texts of _add_feature for a file it creates at path.
AddNewWords(feature, target, path) ==
    [handler |-> "_add_feature",
     change  |-> <<"Created new file ">> \o path \o <<" implementing ">> \o feature,
     ok      |-> <<"Successfully created new file ">> \o path
                    \o <<" implementing ">> \o feature,
     failed  |-> <<"Failed to add feature ">> \o feature \o <<" to ">> \o target]

\* The texts of _add_feature for a file that exists.
AddWords(feature, target) ==
    [handler |-> "_add_feature",
     change  |-> <<"Added feature ">> \o feature \o <<" to ">> \o target,
     ok      |-> <<"Successfully added feature ">> \o feature \o <<" to ">> \o target,
     failed  |-> <<"Failed to add feature ">> \o feature \o <<" to ">> \o target]

\* The try block of _add_feature: the answer's code is written to the path
\* with no test against what the file held.
AddCode(p, w, path, o) ==
    IF o.answer = None THEN Gave(p, w.handler, w.failed \o <<": ", "APIError">>)
    ELSE Staged(p, w, path, strip_fence(o.answer, "java"), o.staged)

\* The path of the class _add_feature creates in a package.
ClassPath(feature, target) == target \o <<"/">> \o ClassName(feature, 1) \o DotJava

\* _add_feature with no file found for the target: a new file named by the
\* target, or a new class in the target package.
AddNew(p, feature, target, o) ==
    IF EndsWith(target, DotJava)
    THEN AddCode(p, AddNewWords(feature, target, target), target, o)
    ELSE IF target \notin Packages
    THEN Gave(p, "_add_feature",
              <<"Could not find target package or component: ">> \o target)
    ELSE AddCode(p, AddNewWords(feature, target, ClassPath(feature, target)),
                 ClassPath(feature, target), o)

AddTo(p, path, feature, target, o) ==
    IF path = None THEN AddNew(p, feature, target, o)
    ELSE AddCode(p, AddWords(feature, target), path, o)

_add_feature(p, feature, target, o) ==
    IF o.raises THEN Raised(p, "_add_feature")
    ELSE AddTo(p, _find_file(p.files, target), feature, target, o)

Explained(p, path, target, o) ==
    IF path = None
    THEN Gave(p, "_explain_code", <<"Could not find target file: ">> \o target)
    ELSE IF o.answer = None
    THEN Gave(p, "_explain_code",
              <<"Failed to explain ">> \o target \o <<": ", "APIError">>)
    ELSE Gave(p, "_explain_code", <<"## Explanation of ">> \o target \o o.answer)

_explain_code(p, target, o) ==
    IF o.raises THEN Raised(p, "_explain_code")
    ELSE Explained(p, _find_file(p.files, target), target, o)

\* _show_help returns its help text.
_show_help(p) == Gave(p, "_show_help", <<"## Available Commands">>)

\* The if/elif chain of _execute_command.
Dispatch(p, cmd, o) ==
    CASE cmd.kind = "fix"      -> _fix_code(p, cmd.target, o)
      [] cmd.kind = "improve"  -> _improve_code(p, cmd.target, o)
      [] cmd.kind = "document" -> _document_code(p, cmd.target, o)
      [] cmd.kind = "add"      -> _add_feature(p, cmd.feature, cmd.target, o)
      [] cmd.kind = "explain"  -> _explain_code(p, cmd.target, o)
      [] cmd.kind = "help"     -> _show_help(p)
      [] OTHER -> Gave(p, "none", <<"Unknown command type: ", cmd.kind>>)

\* _execute_command without its try block: the exception goes on to process.
Propagated(r) == r

\* except Exception as e: return f"Error: {str(e)}"
Caught(r) ==
    IF r.raised
    THEN [p |-> r.p, handler |-> r.handler, raised |-> FALSE, caught |-> TRUE,
          result |-> <<"Error: ", "Exception">>]
    ELSE r

_execute_command(p, cmd, o) == Caught(Dispatch(p, cmd, o))


\* args_str of _respond_with_results.
ArgsStr(cmd) ==
    CASE cmd.kind = "add"  -> cmd.feature \o <<" to ">> \o cmd.target
      [] cmd.kind = "help" -> <<>>
      [] OTHER -> cmd.target

\* The lines _respond_with_results appends for one entry of results.
Section(r) ==
    << <<"### Command: ", Tick, "/", r.cmd.kind, " ">> \o ArgsStr(r.cmd) \o <<Tick>>,
       <<>>, r.result, <<>> >>

\* The loop replaced by its last round.
SectionOfLast(results) == Section(results[Len(results)])

\* for cmd_type, args, result in results: ...
Sections(results) == Flatten([k \in 1..Len(results) |-> Section(results[k])])

\* if self.changes_made: ...
ChangeLines(changes) ==
    IF changes = <<>> THEN <<>>
    ELSE << <<"### Changes Made">>, <<>> >>
            \o [k \in 1..Len(changes) |-> <<"- ">> \o changes[k]]
            \o << <<>> >>

\* The list `response` of _respond_with_results, which is written to
\* RESPONSE_FILE joined by newlines.
_respond_with_results(results, changes) ==
    << <<"## ModForge Automation Response">>, <<>> >>
        \o Sections(results)
        \o ChangeLines(changes)
        \o << <<"---">>, <<"*Executed by ModForge Automation System*">> >>

\* A response file that was not written.
NoFile == [written |-> FALSE]

\* CommandProcessor(COMMENT_BODY, ISSUE_NUMBER, IS_PR) before process().
ProcStarts ==
    {[pc |-> "start", body |-> b, commands |-> <<>>, executed |-> <<>>,
      results |-> <<>>, answer |-> None, files |-> Files, staged |-> {},
      writes |-> <<>>, changes_made |-> <<>>, response |-> NoFile] :
        b \in ProcBodies}

procOthers == <<text, pc, impl, commands, starts, conv, issue, analyzer, improver>>

\* if not commands: return
Extracted(p, cmds) ==
    [p EXCEPT !.commands = cmds,
              !.pc = IF cmds = <<>> THEN "done" ELSE "loop"]

\* commands = self._extract_commands()
ProcessExtract ==
    /\ proc.pc = "start"
    /\ proc' = Extracted(proc, extract_commands(proc.body).commands)
    /\ UNCHANGED procOthers

\* One call of a handler: which one, for which command, and whether it
\* raised.
Call(cmd, o, r) ==
    [handler |-> r.handler, cmd |-> cmd, raised |-> r.raised \/ r.caught]

\* results.append((cmd_type, args, result)), or process left by what
\* _execute_command raised.
Executed(cmd, o, r) ==
    IF r.raised
    THEN [r.p EXCEPT !.executed = Append(r.p.executed, Call(cmd, o, r)),
                     !.answer = o.answer,
                     !.pc = "raised"]
    ELSE [r.p EXCEPT !.executed = Append(r.p.executed, Call(cmd, o, r)),
                     !.answer = o.answer,
                     !.results = Append(r.p.results, [cmd |-> cmd, result |-> r.result])]

\* One round of `for cmd_type, args in commands:`.
ProcessCommand ==
    /\ proc.pc = "loop"
    /\ Len(proc.results) < Len(proc.commands)
    /\ \E o \in Outcomes :
          proc' = Executed(proc.commands[Len(proc.results) + 1], o,
                           _execute_command(proc, proc.commands[Len(proc.results) + 1], o))
    /\ UNCHANGED procOthers

\* self._respond_with_results(results)
RespondWithResults ==
    /\ proc.pc = "loop"
    /\ Len(proc.results) = Len(proc.commands)
    /\ proc' = [proc EXCEPT
                  !.response = [written |-> TRUE,
                                lines |-> _respond_with_results(proc.results,
                                                                proc.changes_made)],
                  !.pc = "done"]
    /\ UNCHANGED procOthers

ProcNext ==
    \/ ProcessExtract
    \/ ProcessCommand
    \/ RespondWithResults

(***************************************************************************)
(* Properties of the dispatch                                              *)
(***************************************************************************)

\* The handler of each kind of command of the comment script.
HandlerOf ==
    [kind \in CommentKinds |->
        CASE kind = "fix"      -> "_fix_code"
          [] kind = "improve"  -> "_improve_code"
          [] kind = "document" -> "_document_code"
          [] kind = "add"      -> "_add_feature"
          [] kind = "explain"  -> "_explain_code"
          [] kind = "help"     -> "_show_help"]

\* The commands of the comment run so far went to the handlers of their
\* kinds, once each and in the order of the sequence.
InOrder ==
    /\ Len(proc.executed) <= Len(proc.commands)
    /\ \A k \in 1..Len(proc.executed) :
          /\ proc.executed[k].cmd = proc.commands[k]
          /\ proc.executed[k].handler = HandlerOf[proc.commands[k].kind]

\* C22 as claimed: for one triggering event every command of the detected
\* sequence is dispatched exactly once, in sequence order, and none is
\* skipped: a run that has got past the dispatch has dispatched the whole
\* sequence, in the conversation script as in the comment script.
C22_AllDispatched ==
    /\ (conv.pc \in {"post", "done"} /\ ~conv.is_stale /\ conv.history # <<>>)
          => conv.executed = conv.commands
    /\ proc.pc = "done" => (InOrder /\ Len(proc.executed) = Len(proc.commands))

\* C22 as the code has it: the comment script dispatches every extracted
\* command to the handler of its kind, once each and in the order of the
\* sequence; the conversation script dispatches the first detected command
\* alone, once, and skips the others.
C22_FirstOrAll ==
    /\ conv.pc # "idle"
          => /\ Len(conv.executed) <= 1
             /\ (conv.pc \in {"post", "done"} /\ conv.commands # <<>>)
                   => conv.executed = <<conv.commands[1]>>
    /\ proc.pc # "idle"
          => /\ InOrder
             /\ proc.pc = "done" => Len(proc.executed) = Len(proc.commands)

\* C22: the conversation script has ended a run whose message held two
\* commands with the first one dispatched and the second one not.
C22_Witness ==
    /\ conv.pc = "done"
    /\ Len(conv.commands) = 2
    /\ conv.executed = <<conv.commands[1]>>
    /\ conv.posted # <<>>


\* A text: a str, which None is not.
IsText(v) == v # None /\ v # <<>>

\* C23: a handler's failure is caught and reported as text and never leaves
\* _execute_command: every call made so far, of a handler that raised
\* included, has given a text that went into the results, so process is
\* never left by an exception and a command behind a failed one is still
\* executed and reported in the response.
C23_FailureReported ==
    proc.pc # "idle"
        => /\ proc.pc # "raised"
           /\ Len(proc.results) = Len(proc.executed)
           /\ \A k \in 1..Len(proc.results) :
                 /\ IsText(proc.results[k].result)
                 /\ proc.executed[k].raised
                       => proc.results[k].result[1] = "Error: "
           /\ (proc.pc = "done" /\ proc.commands # <<>>)
                 => /\ Len(proc.results) = Len(proc.commands)
                    /\ proc.response.written

\* C23: the handler of the first of two commands raised, the second command
\* was executed with success all the same, and both are in the response.
C23_Witness ==
    /\ proc.pc = "done"
    /\ Len(proc.commands) = 2
    /\ proc.executed[1].raised
    /\ proc.results[1].result[1] = "Error: "
    /\ proc.results[2].result[1] = "Successfully fixed issues in "
    /\ proc.response.written


(***************************************************************************)
(* Properties of the response file of the comment script                   *)
(***************************************************************************)

\* The lines of the response that open a Command section.
HeaderLines ==
    {n \in 1..Len(proc.response.lines) :
        /\ proc.response.lines[n] # <<>>
        /\ proc.response.lines[n][1] = "### Command: "}

\* The k-th of them from the top.
NthHeader(k) ==
    CHOOSE n \in HeaderLines : Cardinality({m \in HeaderLines : m < n}) = k - 1

\* The k-th section is the one of the k-th command and holds the result of
\* the call made for that command.
PairedWith(n, k) ==
    /\ proc.response.lines[n][4] = proc.commands[k].kind
    /\ proc.response.lines[n]
          = <<"### Command: ", Tick, "/", proc.commands[k].kind, " ">>
               \o ArgsStr(proc.commands[k]) \o <<Tick>>
    /\ proc.results[k].cmd = proc.commands[k]
    /\ proc.executed[k].cmd = proc.commands[k]
    /\ proc.response.lines[n + 2] = proc.results[k].result

\* C27: process() writes comment_response.txt if and only if at least one
\* command was extracted; the written response has exactly one Command
\* section per extracted command, in the order of extraction, each with the
\* result of that same command.
C27_OneSectionPerCommand ==
    proc.pc # "idle"
        => /\ proc.response.written => proc.pc = "done"
           /\ proc.pc = "done" => (proc.response.written <=> proc.commands # <<>>)
           /\ proc.response.written
                 => /\ Cardinality(HeaderLines) = Len(proc.commands)
                    /\ \A k \in 1..Len(proc.commands) :
                          PairedWith(NthHeader(k), k)

\* C27: a comment with two commands has been answered, the first command
\* with a failure and the second with a success, in that order.
C27_Witness ==
    /\ proc.pc = "done"
    /\ proc.response.written
    /\ Len(proc.commands) = 2
    /\ proc.commands[1].target # proc.commands[2].target
    /\ proc.response.lines[5] = <<"Could not find target file: ", "B">>
    /\ proc.response.lines[9] = <<"Successfully fixed issues in ", "a">>


(***************************************************************************)
(* _improve_code of process_pull_request.py                                *)
(***************************************************************************)

\* Most files changed by the pull request.
MaxFiles == 2

\* The files of the checkout: a Java file and a text file.
PullFiles ==
    [path \in {<<"a", ".", "J", "a", "v", "a">>, <<"n", ".", "m", "d">>} |-> Content]

\* The paths git names as changed: the two files and a file the pull
\* request has deleted.
ChangedPaths == DOMAIN PullFiles \cup {<<"d", ".", "x", "m", "l">>}

Lower(s) == [k \in 1..Len(s) |-> ToLower(s[k])]

\* The position of the last dot of the path, 0 when it has none.
LastDot(path) ==
    CHOOSE d \in {0} \cup {k \in 1..Len(path) : path[k] = "."} :
        \A k \in d + 1..Len(path) : path[k] # "."

\* file_path.split('.')[-1].lower()
ExtOf(path) == Lower(SubSeq(path, LastDot(path) + 1, Len(path)))

\* The extensions _improve_code works on.
ImprovedExts ==
    {<<"j", "a", "v", "a">>, <<"x", "m", "l">>, <<"g", "r", "a", "d", "l", "e">>}

\* PullRequestProcessor before _improve_code(changed_files); `next` is the
\* place of the loop in changed_files.
ImproverStarts ==
    {[pc |-> "loop", changed_files |-> fs, next |-> 1, answer |-> None,
      files |-> PullFiles, staged |-> {}, writes |-> <<>>, changes_made |-> <<>>] :
        fs \in SeqsUpTo(ChangedPaths, MaxFiles)}

improverOthers == <<text, pc, impl, commands, starts, conv, proc, issue, analyzer>>

\* The file written, then git add, which raises into the except branch when
\* it fails; self.changes_made gets its entry behind it.
ImprovedFile(r, path, code, staged) ==
    IF staged
    THEN [r EXCEPT !.files = WriteFile(r.files, path, code),
                   !.writes = Append(r.writes, path),
                   !.staged = r.staged \cup {path},
                   !.changes_made = Append(r.changes_made,
                                           <<"Improved code quality in ">> \o path)]
    ELSE [r EXCEPT !.files = WriteFile(r.files, path, code),
                   !.writes = Append(r.writes, path)]

\* if improved_code != content: ...
Compared(r, path, code, staged) ==
    IF code # r.files[path] THEN ImprovedFile(r, path, code, staged) ELSE r

\* One round of `for file_path in changed_files:` on a file that exists.
Improved(r, path, o) ==
    IF ExtOf(path) \notin ImprovedExts THEN r
    ELSE IF o.answer = None THEN r
    ELSE Compared(r, path, strip_fence(o.answer, "word"), o.staged)

\* The round over: the model's answer noted, the loop one file further.
NextFile(r, o) == [r EXCEPT !.answer = o.answer, !.next = r.next + 1]

\* if not os.path.exists(file_path): continue
ImproveFile ==
    /\ improver.pc = "loop"
    /\ improver.next <= Len(improver.changed_files)
    /\ \E o \in Outcomes :
          /\ ~o.raises
          /\ improver' =
                IF improver.changed_files[improver.next] \notin DOMAIN improver.files
                THEN NextFile(improver, o)
                ELSE NextFile(Improved(improver,
                                       improver.changed_files[improver.next], o), o)
    /\ UNCHANGED improverOthers

\* The loop has gone through changed_files.
ImproveReturn ==
    /\ improver.pc = "loop"
    /\ improver.next > Len(improver.changed_files)
    /\ improver' = [improver EXCEPT !.pc = "done"]
    /\ UNCHANGED improverOthers

ImproverNext == ImproveFile \/ ImproveReturn

(***************************************************************************)
(* Properties of the files written                                         *)
(***************************************************************************)

\* The code an answer was built around, as the comment script and as the
\* pull request script are to find it.
JavaCodeIn(answer) == (CHOOSE form \in AnswerForms : form.text = answer).java

WordCodeIn(answer) == (CHOOSE form \in AnswerForms : form.text = answer).word

\* The files, the index, the writes and changes_made are as they were.
Untouched(before, after) ==
    /\ after.files = before.files
    /\ after.staged = before.staged
    /\ after.writes = before.writes
    /\ after.changes_made = before.changes_made

\* changes_made has gained an entry only with the file at path rewritten:
\* written once, with other content, and staged.
OnlyRewritten(before, after, path) ==
    after.changes_made # before.changes_made
        => /\ Len(after.changes_made) = Len(before.changes_made) + 1
           /\ after.writes = Append(before.writes, path)
           /\ after.files[path] # before.files[path]
           /\ path \in after.staged

\* A step of the comment run that called _fix_code, _improve_code or
\* _document_code on a file that exists and got an answer from the model.
RewriteStep(cmd) ==
    /\ cmd.kind \in {"fix", "improve", "document"}
    /\ cmd.target \in DOMAIN proc.files
    /\ proc'.answer # None
    /\ ~proc'.executed[Len(proc'.executed)].raised

ProcSame(cmd) ==
    RewriteStep(cmd)
        => /\ JavaCodeIn(proc'.answer) = proc.files[cmd.target]
                 => Untouched(proc, proc')
           /\ OnlyRewritten(proc, proc', cmd.target)

\* A step of the pull request improver on a file that exists, of a kind it
\* works on, with an answer from the model.
ImproveStep(path) ==
    /\ path \in DOMAIN improver.files
    /\ ExtOf(path) \in ImprovedExts
    /\ improver'.answer # None

ImproverSame(path) ==
    ImproveStep(path)
        => /\ WordCodeIn(improver'.answer) = improver.files[path]
                 => Untouched(improver, improver')
           /\ OnlyRewritten(improver, improver', path)

\* C30: when the code the model returned, fences stripped, is what the file
\* holds, the fix, improve and document handlers and the pull request
\* improver leave the file unwritten and unstaged and changes_made as it
\* was; changes_made gains an entry only for a file that was rewritten.
C30_SameCodeNoWrite ==
    [][/\ (proc.pc = "loop" /\ Len(proc'.executed) = Len(proc.executed) + 1)
             => ProcSame(proc.commands[Len(proc.executed) + 1])
       /\ (improver.pc = "loop" /\ improver'.next = improver.next + 1)
             => ImproverSame(improver.changed_files[improver.next])]_vars

\* C30: /fix a was answered with the file's own content in a java block
\* with text around it; nothing was written, staged or noted as a change.
C30_Witness ==
    /\ proc.pc = "done"
    /\ proc.commands = <<[kind |-> "fix", target |-> <<"a">>]>>
    /\ proc.answer = <<"t", "\n">> \o Fenced(Java, Content) \o <<"t", "\n">>
    /\ proc.results[1].result = <<"No issues found in ", "a">>
    /\ proc.writes = <<>> /\ proc.staged = {} /\ proc.changes_made = <<>>
    /\ proc.files = Files

(***************************************************************************)
(* One run of process_issue_command.py                                     *)
(***************************************************************************)

\* A literal of a pattern compiled with re.IGNORECASE at position i.
LitAtNoCase(t, i, lit) ==
    /\ i + Len(lit) - 1 <= Len(t)
    /\ \A k \in 1..Len(lit) : ToLower(t[i + k - 1]) = ToLower(lit[k])

\* (.*) from p without re.DOTALL: the rest of the line.
LineFrom(t, p) == SubSeq(t, p, p + RunNotIn(t, p, {"\n"}) - 1)

SlashCommand == <<"/", "c", "o", "m", "m", "a", "n", "d">>

\* /command\s+(.*) at position i: \s+ takes every whitespace character,
\* line ends among them, and the group takes what is left of the line.
CommandAt(t, i) ==
    IF LitAtNoCase(t, i, SlashCommand) /\ RunIn(t, i + Len(SlashCommand), WS) >= 1
    THEN [ok |-> TRUE,
          g1 |-> LineFrom(t, i + Len(SlashCommand)
                                + RunIn(t, i + Len(SlashCommand), WS))]
    ELSE NoMatch

RECURSIVE CommandSearch(_, _)
CommandSearch(t, i) ==
    IF i > Len(t) THEN NoMatch
    ELSE FirstOk(CommandAt(t, i), CommandSearch(t, i + 1))

Stripped(m) == IF m.ok THEN Strip(m.g1) ELSE None

\* self._extract_command(): group 1 stripped, or None.
_extract_command(body) == Stripped(CommandSearch(body, 1))

\* (a|b|c) at position p: the first alternative that is there.
RECURSIVE Alt(_, _, _)
Alt(t, p, alts) ==
    IF alts = <<>> THEN NoMatch
    ELSE IF LitAtNoCase(t, p, Head(alts))
    THEN [ok |-> TRUE, g |-> SubSeq(t, p, p + Len(Head(alts)) - 1),
          end |-> p + Len(Head(alts))]
    ELSE Alt(t, p, Tail(alts))

\* \s+(.+) at position p, the end of each pattern: \s+ keeps as many
\* characters as leave one for the group, which takes the rest of the line.
\* g1..g3 are the groups matched before.
RestAt(t, p, g1, g2, g3) ==
    LET ks == {k \in 1..RunIn(t, p, WS) : p + k <= Len(t) /\ t[p + k] # "\n"}
    IN  IF ks = {} THEN NoMatch
        ELSE [ok |-> TRUE, g1 |-> g1, g2 |-> g2, g3 |-> g3,
              rest |-> LineFrom(t, p + CHOOSE k \in ks : \A j \in ks : j <= k)]

In == <<"i", "n">>

\* \s*in\s+(.+) at position p, behind group 1.
FixIn(t, p, g1) ==
    IF LitAtNoCase(t, p + RunIn(t, p, WS), In)
    THEN RestAt(t, p + RunIn(t, p, WS) + Len(In), g1, None, None)
    ELSE NoMatch

\* (error|bug|issue)? at p, then the rest: with the group when it is
\* there, and without it when that fails.
FixFrom(t, p, a) ==
    IF a.ok THEN FirstOk(FixIn(t, a.end, a.g), FixIn(t, p, None))
    ELSE FixIn(t, p, None)

FixKinds ==
    << <<"e", "r", "r", "o", "r">>, <<"b", "u", "g">>, <<"i", "s", "s", "u", "e">> >>

\* re.match(r'fix\s+(error|bug|issue)?\s*in\s+(.+)', command, re.IGNORECASE)
fix_pattern(c) ==
    IF LitAtNoCase(c, 1, <<"f", "i", "x">>) /\ RunIn(c, 4, WS) >= 1
    THEN FixFrom(c, 4 + RunIn(c, 4, WS), Alt(c, 4 + RunIn(c, 4, WS), FixKinds))
    ELSE NoMatch

AddKinds ==
    << <<"f", "e", "a", "t", "u", "r", "e">>,
       <<"f", "u", "n", "c", "t", "i", "o", "n", "a", "l", "i", "t", "y">>,
       <<"s", "u", "p", "p", "o", "r", "t">> >>

\* \s+to\s+(.+) behind the feature a2 of kind a1.
AddTarget(t, a1, a2) ==
    IF a2.ok /\ RunIn(t, a2.end, WS) >= 1
             /\ LitAtNoCase(t, a2.end + RunIn(t, a2.end, WS), To)
    THEN RestAt(t, a2.end + RunIn(t, a2.end, WS) + Len(To), a1.g, a2.g1, a2.g2)
    ELSE NoMatch

\* \s+(?:"([^"]+)"|([^"\s]+)) behind the kind a1, then the target.
AddFeature(t, a1) ==
    IF a1.ok THEN AddTarget(t, a1, TargetFrom(t, a1.end, RunIn(t, a1.end, WS)))
    ELSE NoMatch

\* re.match(r'add\s+(feature|functionality|support)\s+(?:"([^"]+)"|([^"\s]+))
\* \s+to\s+(.+)', command, re.IGNORECASE)
add_pattern(c) ==
    IF LitAtNoCase(c, 1, <<"a", "d", "d">>) /\ RunIn(c, 4, WS) >= 1
    THEN AddFeature(c, Alt(c, 4 + RunIn(c, 4, WS), AddKinds))
    ELSE NoMatch

\* re.match(r'improve\s+(.+)', ...) and re.match(r'document\s+(.+)', ...)
WordPattern(c, word) ==
    IF LitAtNoCase(c, 1, word) THEN RestAt(c, 1 + Len(word), None, None, None)
    ELSE NoMatch

Improve == <<"i", "m", "p", "r", "o", "v", "e">>

Document == <<"d", "o", "c", "u", "m", "e", "n", "t">>

\* What _parse_command returns, and whether it asked the model.
Parsed(action, target, details, consulted) ==
    [action |-> action, target |-> target, details |-> details,
     consulted |-> consulted]

\* The else branch: the model's JSON answer, or 'unknown' with the whole
\* command when the call or json.loads raises or the answer is no object.
Fallback(c, f) ==
    IF f.ok THEN Parsed(f.action, f.target, f.details, TRUE)
    ELSE Parsed("unknown", c, None, TRUE)

\* The model asked before the patterns are looked at.
ChainModelFirst(c, fix, add, improve, document, f) == Fallback(c, f)

\* if fix_pattern: ... elif add_pattern: ... elif improve_pattern: ...
\* elif document_pattern: ... else: <the model>
Chain(c, fix, add, improve, document, f) ==
    IF fix.ok
    THEN Parsed("fix", fix.rest,
                IF Truthy(fix.g1) THEN fix.g1 ELSE <<"e", "r", "r", "o", "r">>, FALSE)
    ELSE IF add.ok THEN Parsed("add", add.rest, IfElse(add.g2, add.g3), FALSE)
    ELSE IF improve.ok THEN Parsed("improve", improve.rest, None, FALSE)
    ELSE IF document.ok THEN Parsed("document", document.rest, None, FALSE)
    ELSE Fallback(c, f)

\* self._parse_command(), f being what the model call would give.
_parse_command(c, f) ==
    Chain(c, fix_pattern(c), add_pattern(c), WordPattern(c, Improve),
          WordPattern(c, Document), f)

\* The commands written behind /command, each with the action the patterns
\* of _parse_command are to find in it ("none": no pattern is to match).
\* a is a file, B and q are nothing, p is a package, j is a file under
\* JAVA_SRC_DIR.
IssueCommands ==
    {[text |-> <<"f", "i", "x", " ", "b", "u", "g", " ", "i", "n", " ", "a">>,
      builtin |-> "fix"],
     [text |-> <<"F", "i", "x", " ", "i", "n", " ", "B">>, builtin |-> "fix"],
     [text |-> <<"a", "d", "d", " ">> \o AddKinds[1] \o <<" ", "f", " ", "t", "o", " ", "a">>,
      builtin |-> "add"],
     [text |-> <<"a", "d", "d", " ">> \o AddKinds[3] \o <<" ", "f", " ", "t", "o", " ", "q">>,
      builtin |-> "add"],
     [text |-> <<"A", "d", "d", " ">> \o AddKinds[1] \o <<" ", "f", " ", "T", "o", " ", "P">>,
      builtin |-> "add"],
     [text |-> Improve \o <<" ", "a">>, builtin |-> "improve"],
     [text |-> Improve \o <<" ", "j">>, builtin |-> "improve"],
     [text |-> <<"D">> \o Tail(Document) \o <<" ", "B">>, builtin |-> "document"],
     [text |-> <<"f", "i", "x", " ", "a">>, builtin |-> "none"],
     [text |-> <<"d", "e", "p", "l", "o", "y", " ", "a">>, builtin |-> "none"]}

\* Issue bodies: a command behind /command, talk, /command with nothing
\* behind it, and /COMMAND with the command on the next line.
IssueBodies ==
    {SlashCommand \o <<" ">> \o c.text : c \in IssueCommands}
        \cup {<<"h", "i">>, SlashCommand \o <<" ">>,
              Upper(SlashCommand) \o <<"\n">> \o Improve \o <<" ", "a">>}

\* What the model call of _parse_command gives: it raises or answers with
\* something that is no JSON object (ok is FALSE), or it answers with an
\* object, of which get() takes the three fields, None for a missing one.
Fallbacks ==
    {[ok |-> FALSE],
     [ok |-> TRUE, action |-> "fix", target |-> <<"a">>, details |-> None],
     [ok |-> TRUE, action |-> "deploy", target |-> <<"a">>, details |-> None],
     [ok |-> TRUE, action |-> "improve", target |-> None, details |-> None]}

\* What the model call of a handler gives: it raises (None) or answers.
IssueAnswers == {None, OtherCode, Fenced(Java, OtherCode)}

IssueFiles == [path \in {<<"a">>} |-> Content]

JavaDirFiles == {<<"j">>}

IssuePackages == {<<"p">>}

\* self._find_file(filename).  os.path.exists(None) raises TypeError; for a
\* file that is under JAVA_SRC_DIR the test calls java_path.isfile(), which
\* a Path does not have, and raises AttributeError.
IssueFindFile(files, filename) ==
    IF filename = None THEN [raised |-> TRUE]
    ELSE IF filename \in DOMAIN files THEN [raised |-> FALSE, path |-> filename]
    ELSE IF filename \in JavaDirFiles \/ filename \o DotJava \in JavaDirFiles
    THEN [raised |-> TRUE]
    ELSE [raised |-> FALSE, path |-> None]

\* split(fence)[1] and split(fence)[0] behind it: what stands between the
\* opening fence that ends before p and the next fence, or the end.
Behind(a, p) ==
    LET ends == {j \in p..Len(a) : LitAt(a, j, Fence)}
    IN  IF ends = {} THEN SubSeq(a, p, Len(a)) ELSE SubSeq(a, p, Min(ends) - 1)

\* The code the handlers of the issue script take out of a stripped answer.
IssueCodeIn(a) ==
    IF LitAt(a, 1, Fence \o Java) THEN Behind(a, 1 + Len(Fence \o Java))
    ELSE IF LitAt(a, 1, Fence) THEN Behind(a, 1 + Len(Fence))
    ELSE a

\* self._respond(message): RESPONSE_FILE is opened with 'w' and holds the
\* message alone; `said` keeps every message in the order written.
Respond(s, message) ==
    [s EXCEPT !.response = [written |-> TRUE, text |-> message],
              !.said = Append(s.said, message)]

\* What a handler hands back: the processor after it and True or False, or
\* the exception that left it.
Returns(s, result) == [s |-> s, raised |-> FALSE, result |-> result]

Raises(s) == [s |-> s, raised |-> TRUE, result |-> FALSE]

\* The try block of a handler: the model's code written to the path and
\* the change noted, or False when the call raised.
IssueWrite(s, path, change, answer) ==
    IF answer = None THEN Returns(s, FALSE)
    ELSE Returns([s EXCEPT !.files = WriteFile(s.files, path, IssueCodeIn(Strip(answer))),
                           !.writes = Append(s.writes, path),
                           !.changes_made = Append(s.changes_made, change)],
                 TRUE)

\* The body of _fix_issue, _improve_code and _generate_documentation.
IssueRewrite(s, found, target, change, answer) ==
    IF found.raised THEN Raises(s)
    ELSE IF found.path = None
    THEN Returns(Respond(s, <<"Could not find target file: ">> \o target), FALSE)
    ELSE IssueWrite(s, found.path, change \o target, answer)

\* The handler entered: its name noted.
Entered(s, handler) == [s EXCEPT !.handlers = Append(s.handlers, handler)]

_fix_issue(s, target, error_type, answer) ==
    IssueRewrite(Entered(s, "_fix_issue"), IssueFindFile(s.files, target), target,
                 <<"Fixed ">> \o error_type \o <<" in ">>, answer)

IssueImproveCode(s, target, answer) ==
    IssueRewrite(Entered(s, "_improve_code"), IssueFindFile(s.files, target), target,
                 <<"Improved code quality in ">>, answer)

_generate_documentation(s, target, answer) ==
    IssueRewrite(Entered(s, "_generate_documentation"),
                 IssueFindFile(s.files, target), target,
                 <<"Added comprehensive documentation to ">>, answer)

\* _add_feature with no file found: a new class in the package of the
\* target's name, or the target reported as not found.  split() of a
\* description that is None raises.  The checkout has no plugin.xml, so
\* _update_plugin_xml_for_feature returns at once.
IssueAddNew(s, target, feature, answer) ==
    IF Lower(target) \notin IssuePackages
    THEN Returns(Respond(s, <<"Could not find target: ">> \o target
                            \o <<". Please specify a valid file, package, or component.">>),
                 FALSE)
    ELSE IF feature = None THEN Raises(s)
    ELSE IssueWrite(s, ClassPath(feature, Lower(target)),
                    <<"Created new class ">> \o ClassName(feature, 1)
                        \o <<" for feature: ">> \o feature,
                    answer)

IssueAdd(s, found, target, feature, answer) ==
    IF found.raised THEN Raises(s)
    ELSE IF found.path = None THEN IssueAddNew(s, target, feature, answer)
    ELSE IssueWrite(s, found.path,
                    <<"Added feature '">> \o feature \o <<"' to ">> \o target, answer)

IssueAddFeature(s, target, feature, answer) ==
    IssueAdd(Entered(s, "_add_feature"), IssueFindFile(s.files, target),
             target, feature, answer)

\* The if/elif chain of _execute_command.
IssueDispatch(s, parsed, answer) ==
    CASE parsed.action = "fix" -> _fix_issue(s, parsed.target, parsed.details, answer)
      [] parsed.action = "add" -> IssueAddFeature(s, parsed.target, parsed.details, answer)
      [] parsed.action = "improve" -> IssueImproveCode(s, parsed.target, answer)
      [] parsed.action = "document" -> _generate_documentation(s, parsed.target, answer)
      [] OTHER ->
            Returns(Respond(s, <<"Unknown action: ", parsed.action,
                                 ". Supported actions are: fix, add, improve, document.">>),
                    FALSE)

\* except Exception as e: return False
IssueCaught(r) == Returns(r.s, r.result)

\* self._execute_command(action, target, details)
IssueExecuteCommand(s, parsed, answer) == IssueCaught(IssueDispatch(s, parsed, answer))

\* CommandProcessor(ISSUE_BODY, ISSUE_TITLE) before process(): __init__
\* has extracted the command.
IssueStarts ==
    {[pc |-> "start", body |-> b, command |-> _extract_command(b),
      parsed |-> Parsed("none", None, None, FALSE), fallback |-> "none",
      handlers |-> <<>>, said |-> <<>>, response |-> NoFile, result |-> FALSE,
      files |-> IssueFiles, writes |-> <<>>, changes_made |-> <<>>] :
        b \in IssueBodies}

issueOthers == <<text, pc, impl, commands, starts, conv, proc, analyzer, improver>>

\* if not self.command: self._respond("No command found. ..."); return
NoCommand ==
    /\ issue.pc = "start"
    /\ ~Truthy(issue.command)
    /\ issue' = [Respond(issue, <<"No command found.">>) EXCEPT !.pc = "done"]
    /\ UNCHANGED issueOthers

\* The parse noted with what became of the model call, if one was made.
ParsedAs(f, parsed) ==
    [issue EXCEPT !.parsed = parsed,
                  !.fallback = IF ~parsed.consulted THEN "none"
                               ELSE IF f.ok THEN "answered" ELSE "failed",
                  !.pc = "parsed"]

\* action, target, details = self._parse_command()
ParseCommand ==
    /\ issue.pc = "start"
    /\ Truthy(issue.command)
    /\ \E f \in Fallbacks :
          issue' = ParsedAs(f, _parse_command(issue.command, f))
    /\ UNCHANGED issueOthers

\* result = self._execute_command(action, target, details)
ExecuteCommand ==
    /\ issue.pc = "parsed"
    /\ \E answer \in IssueAnswers :
          issue' = [IssueExecuteCommand(issue, issue.parsed, answer).s EXCEPT
                      !.result = IssueExecuteCommand(issue, issue.parsed, answer).result,
                      !.pc = "executed"]
    /\ UNCHANGED issueOthers

\* if result: self._respond("Command executed successfully. ...")
\* else: self._respond("Command execution failed. ...")
Responds(s) ==
    IF s.result
    THEN Respond(s, <<"Command executed successfully.">> \o Flatten(s.changes_made))
    ELSE Respond(s, <<"Command execution failed. Please check the logs for details.">>)

RespondToIssue ==
    /\ issue.pc = "executed"
    /\ issue' = [Responds(issue) EXCEPT !.pc = "done"]
    /\ UNCHANGED issueOthers

IssueNext ==
    \/ NoCommand
    \/ ParseCommand
    \/ ExecuteCommand
    \/ RespondToIssue

(***************************************************************************)
(* Properties of the issue script                                          *)
(***************************************************************************)

\* The action the patterns are to find in the command of the run.
BuiltIn == (CHOOSE c \in IssueCommands : c.text = issue.command).builtin

\* C24: the model is asked to parse the command only when none of the fix,
\* add, improve and document patterns matches it; when one matches no model
\* call is made and the action is the one of the pattern; when the call
\* fails the parse gives action unknown with the whole command as target,
\* and no handler is run for it.
C24_FallbackLast ==
    (issue.pc \in {"parsed", "executed", "done"} /\ Truthy(issue.command))
        => /\ BuiltIn # "none"
                 => (issue.fallback = "none" /\ issue.parsed.action = BuiltIn)
           /\ issue.fallback # "none" => BuiltIn = "none"
           /\ issue.fallback = "failed"
                 => /\ issue.parsed = Parsed("unknown", issue.command, None, TRUE)
                    /\ issue.handlers = <<>>

\* C24: fix a, which lacks the word in, went to the model, whose call
\* failed; the run has ended with no handler run.
C24_Witness ==
    /\ issue.pc = "done"
    /\ issue.command = <<"f", "i", "x", " ", "a">>
    /\ issue.fallback = "failed"
    /\ issue.parsed.action = "unknown"
    /\ issue.parsed.target = issue.command
    /\ issue.handlers = <<>>

\* The messages with which a handler or _execute_command names what went
\* wrong: the target file or the target not found, the action unknown.
Specific ==
    {"Could not find target file: ", "Could not find target: ", "Unknown action: "}

\* C25: when a handler has reported a specific failure through _respond,
\* that message is the content of issue_response.txt when process()
\* returns.
C25_SpecificMessageKept ==
    issue.pc = "done"
        => \A k \in 1..Len(issue.said) :
              issue.said[k][1] \in Specific
                  => issue.response = [written |-> TRUE, text |-> issue.said[k]]

(***************************************************************************)
(* One run of pr_analyzer.py                                               *)
(***************************************************************************)

\* The size above which main skips a file.
SizeLimit == 50000

\* Entries of the pull request's file list: a Java file, the same removed,
\* at the size limit and above it, and a file of a kind that is not
\* analysed.
PrFiles ==
    {[filename |-> <<"a", ".", "J", "A", "V", "A">>, status |-> "modified", size |-> 0],
     [filename |-> <<"a", ".", "j", "a", "v", "a">>, status |-> "removed", size |-> 0],
     [filename |-> <<"a", ".", "j", "a", "v", "a">>, status |-> "modified",
      size |-> SizeLimit],
     [filename |-> <<"a", ".", "j", "a", "v", "a">>, status |-> "modified",
      size |-> SizeLimit + 1],
     [filename |-> <<"n", ".", "m", "d">>, status |-> "modified", size |-> 0]}

\* What happens to one file: its content or diff cannot be read; or the
\* analysis gives a review, the text of its except branch ("error") or an
\* empty text, and the request of post_review_comment is answered.
FileOutcomes ==
    {[read |-> FALSE, analysis |-> "none", status |-> Ok]}
        \cup {[read |-> TRUE, analysis |-> a, status |-> st] :
                a \in {"review", "error", "empty"}, st \in {Created, 403}}

\* Path(file_path).suffix.lower()
Suffix(path) ==
    IF LastDot(path) <= 1 THEN <<>>
    ELSE [k \in 1..(Len(path) - LastDot(path) + 1) |->
            ToLower(path[LastDot(path) + k - 1])]

\* The suffixes main has an analysis for: .java, .gradle, .kts, .xml.
Analysed ==
    {<<".", "j", "a", "v", "a">>, <<".", "g", "r", "a", "d", "l", "e">>,
     <<".", "k", "t", "s">>, <<".", "x", "m", "l">>}

\* The analyzer before main; `next` is the place of the loop in pr_files.
AnalyzerStarts ==
    {[pc |-> "start", pr_files |-> fs, next |-> 1, review_count |-> 0,
      reviews |-> <<>>, summary |-> [posted |-> FALSE], suggested |-> FALSE] :
        fs \in SeqsUpTo(PrFiles, MaxFiles)}

analyzerOthers == <<text, pc, impl, commands, starts, conv, proc, issue, improver>>

\* if not pr_files: sys.exit(1)
GetFiles ==
    /\ analyzer.pc = "start"
    /\ analyzer' = [analyzer EXCEPT
                      !.pc = IF analyzer.pr_files = <<>> THEN "exit" ELSE "loop"]
    /\ UNCHANGED analyzerOthers

\* if review_content: post_review_comment(...); review_count += 1
\* post_review_comment returns nothing, whatever the answer to its request.
Reviewed(r, k, o) ==
    IF o.analysis = "empty" THEN r
    ELSE [r EXCEPT !.reviews = Append(r.reviews,
                                      [file |-> k,
                                       analysed |-> o.analysis = "review",
                                       accepted |-> o.status \in {Ok, Created}]),
                   !.review_count = r.review_count + 1]

\* One round of the loop over pr_files in main.
AnalyzedFile(r, k, o) ==
    IF r.pr_files[k].status = "removed" \/ r.pr_files[k].size > SizeLimit THEN r
    ELSE IF ~o.read THEN r
    ELSE IF Suffix(r.pr_files[k].filename) \notin Analysed THEN r
    ELSE Reviewed(r, k, o)

AnalyzeFile ==
    /\ analyzer.pc = "loop"
    /\ analyzer.next <= Len(analyzer.pr_files)
    /\ \E o \in FileOutcomes :
          analyzer' = [AnalyzedFile(analyzer, analyzer.next, o) EXCEPT
                         !.next = analyzer.next + 1]
    /\ UNCHANGED analyzerOthers

\* if review_count > 0: post_summary_comment(summary_content, review_count)
\* and suggest_improvements(pr_files).
Summarize ==
    /\ analyzer.pc = "loop"
    /\ analyzer.next > Len(analyzer.pr_files)
    /\ \E st \in {Created, 403} :
          analyzer' =
             IF analyzer.review_count > 0
             THEN [analyzer EXCEPT
                     !.summary = [posted |-> TRUE, count |-> analyzer.review_count,
                                  accepted |-> st = Created],
                     !.suggested = TRUE,
                     !.pc = "done"]
             ELSE [analyzer EXCEPT !.pc = "done"]
    /\ UNCHANGED analyzerOthers

AnalyzerNext == GetFiles \/ AnalyzeFile \/ Summarize

(***************************************************************************)
(* Properties of the analyzer                                              *)
(***************************************************************************)

\* The files whose analysis succeeded and whose review was posted.
ReviewedFiles ==
    {k \in 1..Len(analyzer.reviews) :
        analyzer.reviews[k].analysed /\ analyzer.reviews[k].accepted}

\* C29: the file count of the summary comment is the number of files whose
\* analysis succeeded and whose review comment was posted; summary and
\* suggestions are posted only when that count is above zero; removed and
\* oversized files are never counted.
C29_CountsPostedReviews ==
    analyzer.pc # "idle"
        => /\ analyzer.summary.posted
                 => /\ analyzer.summary.count = Cardinality(ReviewedFiles)
                    /\ analyzer.summary.count > 0
           /\ analyzer.suggested => analyzer.summary.posted
           /\ \A k \in 1..Len(analyzer.reviews) :
                 /\ analyzer.pr_files[analyzer.reviews[k].file].status # "removed"
                 /\ analyzer.pr_files[analyzer.reviews[k].file].size <= SizeLimit

(***************************************************************************)
(* One run of one script                                                   *)
(***************************************************************************)

\* One script is run, the others are not.
RunsInit ==
    /\ text = <<>> /\ pc = "idle" /\ impl = "none"
    /\ commands = <<>> /\ starts = <<>>
    /\ \E run \in {"conv", "proc", "issue", "analyzer", "improver"} :
          /\ conv \in IF run = "conv" THEN ConvStarts ELSE {Idle}
          /\ proc \in IF run = "proc" THEN ProcStarts ELSE {Idle}
          /\ issue \in IF run = "issue" THEN IssueStarts ELSE {Idle}
          /\ analyzer \in IF run = "analyzer" THEN AnalyzerStarts ELSE {Idle}
          /\ improver \in IF run = "improver" THEN ImproverStarts ELSE {Idle}

RunsNext == ConvNext \/ ProcNext \/ IssueNext \/ AnalyzerNext \/ ImproverNext

Runs == RunsInit /\ [][RunsNext]_vars
====
